---- MODULE Spec2Model ----
(***************************************************************************)
(* Literature Manager browser extension: the persisted paper library       *)
(* (chrome.storage.local), the popup controller LiteratureManager          *)
(* (src/popup.js), the background service worker BackgroundService         *)
(* (src/background.js), the gateway response formatters                    *)
(* (src/api_interfaces.js), the lightweight variant's saveDoc              *)
(* (src/unnamed/part_002, called from src/v1/popup.js) and list            *)
(* (src/save_upload.js), and the suggestions page with its viewed links    *)
(* (src/clear_cache.js, src/suggest.js).                                   *)
(*                                                                         *)
(* JavaScript values of different shapes are tagged records, so that an    *)
(* array, a response envelope and a plain object stay distinguishable:     *)
(*   Arr(s)  an array whose elements are the sequence s                    *)
(*   Obj     a plain object that is not an array                           *)
(*   Undef   undefined                                                     *)
(* A paper is [id, file, date, up]: id = NoId when the record has no id    *)
(* property, date is processed_date in days, up is a history field (the    *)
(* ordinal of the upload that created the object) that no code reads.      *)
(***************************************************************************)
EXTENDS Integers, Sequences, FiniteSets, TLC

\* ------------------------------------------------------------------ bounds
MaxUploads == 2        \* files uploaded in one behaviour, over all popups
NowStart == 400        \* the day the behaviour starts (days since the epoch of the model)
MaxTicks == 1          \* days that pass in one behaviour
MaxGwPapers == 2       \* ids the papers of a clustering request and the gateway draw on
MaxGwClusters == 2     \* clusters in one gateway result
MaxDocs == 6           \* clicks on the lightweight popup's analyze button
MaxLocalPapers == 3    \* papers in the array the clustering functions are run on
MaxRuns == 2           \* runs of the clustering functions on that array
MaxFetches == 2        \* fetchRelatedWork alarms in one behaviour
MaxClicks == 3         \* clicks on suggestion links in one behaviour
MaxMs == 6             \* milliseconds that pass in one behaviour
MaxSearchPapers == 2    \* papers in the array the query filter is run on
MaxBatches == 2        \* runs of handleFileUpload in the popup whose uploads overlap
MaxBatchFiles == 3     \* files selected in that popup, over all runs
MaxDetected == 2       \* papers the content script detected on the page
MaxInstallEvents == 2  \* onInstalled events the background service gets

\* ------------------------------------------------------- program constants
HighWaterMark == 100   \* cleanupOldData: data.papers.length > 100
OneYear == 365         \* cleanupOldData: setFullYear(getFullYear() - 1), in days
RetentionDays == 7     \* cleanupOldData: daysSinceUpdate > 7
LatestShown == 5       \* renderPapers: papers.slice(-5)

Ctx == {"popupA", "popupB"}
\* the name of the k-th file uploaded in a behaviour
FileNameOf(k) == IF k % 2 = 1 THEN "a.pdf" ELSE "b.pdf"

NoId == 0
Undef == [kind |-> "undefined"]
Obj == [kind |-> "object"]
Arr(s) == [kind |-> "array", items |-> s]
IsArray(v) == v.kind = "array"

\* ----------------------------------------------------------- sequences
Range(s) == {s[i] : i \in DOMAIN s}
IdsOf(s) == {s[i].id : i \in DOMAIN s}

VARIABLES
    stPapers,        \* chrome.storage.local "papers"
    stClusters,      \* chrome.storage.local "clusters" (a tagged value)
    stLastUpdated,   \* chrome.storage.local "lastUpdated" (day)
    stRelated,       \* chrome.storage.local "recentRelatedWork"
    currentPapers,   \* LiteratureManager.currentPapers, per popup
    currentClusters, \* LiteratureManager.currentClusters, per popup (a tagged value)
    pc,              \* where each popup's pending async call stands
    files,           \* the files handleFileUpload still has to process, per popup
    bg,              \* where the background handler of each popup's request stands
    resp,            \* the response sendMessage resolves with, per popup
    isProcessing,    \* BackgroundService.isProcessing
    cleanPc,         \* where cleanupOldData stands
    cleanData,       \* the snapshot cleanupOldData read
    now,             \* the clock, in days
    nextId,          \* source of generateUniqueId's fresh values
    uploads,         \* history: files handed to handleFileUpload
    added,           \* history: the papers storePaper stored, in call order
    deleted,         \* history: ids deletePaper was confirmed for
    evicted,         \* history: ids cleanupOldData filtered out
    shown,           \* what each popup's last performSearch displayed
    req,             \* the message each popup has sent and that is not answered yet
    fileDataBound,   \* whether the free identifier fileData of popup.js:378 resolves
    lib0,            \* history: the papers the library held at the start
    currentFilter,   \* LiteratureManager.currentFilter, per popup
    served,          \* history: the papers and the gateway outcome behind each response
    apiCall,         \* a LiteratureAPI.performClustering call and what it came to
    stDB,            \* chrome.storage.local "literature_db": its documents
    docWin,          \* the lightweight popup's click handler, per window
    clockMs,         \* Date.now() of the lightweight variant
    docCalls,        \* history: clicks on the analyze button so far
    docSaved,        \* history: the documents saveDoc wrote, in write order
    viewedSuggestions, \* chrome.storage.local "viewedSuggestions" (a tagged value)
    suggestList,     \* the links of the entries the suggestion list displays
    clickHandlers,   \* the click handlers of suggestion links, by click
    clicks,          \* history: clicks on suggestion links so far
    cleared,         \* history: whether the clearCache button was clicked
    localPapers,     \* the papers array the clustering functions are run on
    localRuns,       \* history: what each run on localPapers came to
    stInterests,     \* chrome.storage.local "userPreferences": its researchInterests
    fetchers,        \* the runs of periodicRelatedWorkFetch, by start
    fetchCount,      \* history: fetchRelatedWork alarms so far
    searchPapers,    \* the currentPapers array performSearch's query filter runs on
    searchQuery,     \* LiteratureManager.searchQuery
    searchShown,     \* what that performSearch displayed, or what it threw
    mgrPapers,       \* currentPapers of a popup whose uploads may overlap
    batches,         \* the runs of handleFileUpload in that popup, by start
    pageReq,         \* the message the content script has sent and that is not handled yet
    pageResp,        \* what handleMessage answered to it
    pageAsked,       \* history: the detected papers that message asked to save
    exportRead,      \* what exportData's storage.get resolved with, per caller
    addRecord,       \* the record a caller hands to storePaper or saveDoc
    addStored,       \* the record that call stored
    stSettings,      \* chrome.storage.local "settings"
    stVersion,       \* chrome.storage.local "version"
    installed,       \* whether the browser has the extension installed
    instPc,          \* where the running handleInstallation stands
    instRead,        \* the updates the last migrateData collected from what it read
    instEvents       \* history: the number of onInstalled events so far

storeVars == <<stPapers, stClusters, stLastUpdated, stRelated>>
popupVars == <<currentPapers, currentClusters, pc, files, resp, shown, fileDataBound,
              currentFilter>>
bgVars == <<bg, req, isProcessing, nextId>>
gwVars == <<served, apiCall>>
docVars == <<stDB, docWin, clockMs, docCalls, docSaved>>
cleanVars == <<cleanPc, cleanData, evicted>>
histVars == <<uploads, added, deleted, lib0>>
suggestVars == <<viewedSuggestions, suggestList, clickHandlers, clicks, cleared>>
localVars == <<localPapers, localRuns>>
fetchVars == <<stInterests, fetchers, fetchCount>>
queryVars == <<searchPapers, searchQuery, searchShown>>
batchVars == <<mgrPapers, batches>>
pageVars == <<pageReq, pageResp, pageAsked>>
exportVars == <<exportRead>>
addVars == <<addRecord, addStored>>
installVars == <<stSettings, stVersion, installed, instPc, instRead, instEvents>>
vars == <<storeVars, popupVars, bgVars, gwVars, cleanVars, histVars, now, docVars,
          suggestVars, localVars, fetchVars, queryVars, batchVars, pageVars,
          exportVars, addVars, installVars>>

\* ------------------------------------------------------------ strings
\* A string the code takes apart (a keyword, a cluster name) is the sequence of its
\* characters.
Digits == <<"0", "1", "2", "3", "4", "5", "6", "7", "8", "9">>
LowerCase == <<"a", "b", "c", "d", "e", "f", "g", "h", "i", "j", "k", "l", "m",
               "n", "o", "p", "q", "r", "s", "t", "u", "v", "w", "x", "y", "z">>
UpperCase == <<"A", "B", "C", "D", "E", "F", "G", "H", "I", "J", "K", "L", "M",
               "N", "O", "P", "Q", "R", "S", "T", "U", "V", "W", "X", "Y", "Z">>
ToUpperCase(ch) ==
    IF \E i \in DOMAIN LowerCase : LowerCase[i] = ch
    THEN UpperCase[CHOOSE i \in DOMAIN LowerCase : LowerCase[i] = ch]
    ELSE ch
\* BackgroundService.capitalizeFirstLetter: charAt(0).toUpperCase() + slice(1)
CapitalizeFirstLetter(string) ==
    IF string = <<>> THEN <<>> ELSE <<ToUpperCase(Head(string))>> \o Tail(string)
\* the decimal digits of a natural number, as a template literal prints it
RECURSIVE DecimalString(_)
DecimalString(n) ==
    IF n < 10 THEN <<Digits[n + 1]>>
    ELSE DecimalString(n \div 10) \o <<Digits[(n % 10) + 1]>>
DigitValue(ch) == (CHOOSE i \in DOMAIN Digits : Digits[i] = ch) - 1
RECURSIVE NumericValue(_)
NumericValue(s) ==
    IF s = <<>> THEN 0
    ELSE 10 * NumericValue(SubSeq(s, 1, Len(s) - 1)) + DigitValue(s[Len(s)])
\* the literals of the code and of the inputs
General == <<"g", "e", "n", "e", "r", "a", "l">>
ClusterPrefix == <<"C", "l", "u", "s", "t", "e", "r", " ">>
Vision == <<"V", "i", "s", "i", "o", "n">>
Ml == <<"m", "l">>
Nlp == <<"n", "l", "p">>
Seven == <<"7">>
Constructor == <<"c", "o", "n", "s", "t", "r", "u", "c", "t", "o", "r">>

\* ------------------------------------------------------------ JS values
NoReq == [kind |-> "none"]
NoResp == [kind |-> "none"]
Success(d) == [kind |-> "response", success |-> TRUE, data |-> d, error |-> ""]
Failure(e) == [kind |-> "response", success |-> FALSE, data |-> Undef, error |-> e]
Message(t, d) == [kind |-> "message", type |-> t, data |-> d]
TypeError == [kind |-> "TypeError"]

\* --------------------------------------------------- background utilities
\* BackgroundService.generateClusterColor: the palette index of position index
PaletteSize == 12
GenerateClusterColor(index) == index % PaletteSize

\* BackgroundService.processClusteringResult's clusters: one record per cluster of
\* apiResult, in order; paper_ids are looked up in papers (Array.find: the first paper
\* with that id) and the ids that find nothing are filtered out (filter(Boolean)).
FindPaper(papers, id) ==
    IF \E i \in DOMAIN papers : papers[i].id = id
    THEN <<papers[CHOOSE i \in DOMAIN papers :
                /\ papers[i].id = id
                /\ \A j \in DOMAIN papers : papers[j].id = id => i <= j]>>
    ELSE <<>>

\* the lookup without filter(Boolean): an id that finds nothing stays as a member
LookupAllKeepingUnknown(papers, ids) ==
    [i \in DOMAIN ids |->
        IF FindPaper(papers, ids[i]) # <<>> THEN Head(FindPaper(papers, ids[i]))
        ELSE [id |-> ids[i], keywords |-> Undef]]
RECURSIVE LookupAll(_, _)
LookupAll(papers, ids) ==
    IF ids = <<>> THEN <<>>
    ELSE FindPaper(papers, Head(ids)) \o LookupAll(papers, Tail(ids))

\* cluster.name || `Cluster ${index + 1}`; a cluster without a name is one with name ''
ClusterName(cluster, index) ==
    IF cluster.name # <<>> THEN cluster.name ELSE ClusterPrefix \o DecimalString(index + 1)

ProcessCluster(cluster, index, papers) ==
    [id |-> index + 1,
     name |-> ClusterName(cluster, index),
     color |-> GenerateClusterColor(index),
     papers |-> LookupAll(papers, cluster.paper_ids.items)]

ProcessClusteringResult(apiResult, papers) ==
    [clusters |-> [i \in DOMAIN apiResult.clusters.items |->
                      ProcessCluster(apiResult.clusters.items[i], i - 1, papers)],
     algorithm |-> apiResult.algorithm_used]

\* a run of periodicRelatedWorkFetch that has not started yet
NoFetch == [pc |-> "none", started |-> 0, result |-> Undef, stored |-> 0]
\* a run of handleFileUpload that has not started yet
NoBatch == [pc |-> "none", files |-> <<>>, response |-> NoResp]
\* a click on a suggestion link that has not happened yet
NoHandler == [pc |-> "none", link |-> "", seen |-> <<>>]
\* a window of the lightweight popup: where its click handler stands, the documents
\* loadDB resolved with, the ordinal of the click, and the time of the click
IdleWin == [pc |-> "idle", db |-> <<>>, up |-> 0, clicked |-> 0]

\* ------------------------------------------------------- initial libraries
OldPaper(i) ==
    [id |-> i, file |-> "a.pdf", up |-> 0,
     date |-> IF i <= HighWaterMark THEN 0 ELSE NowStart - 1]
SmallPapers == [i \in 1..3 |-> OldPaper(i)]
BigPapers == [i \in 1..(HighWaterMark + 1) |-> OldPaper(i)]
\* the clusters an earlier clustering run left in storage, in the shape
\* processClusteringResult gives them
ApiCluster(name, ids) == [name |-> name, paper_ids |-> Arr(ids)]
EarlierRun ==
    [clusters |-> Arr(<<ApiCluster(Vision, <<1, 2>>), ApiCluster(<<>>, <<3>>)>>),
     algorithm_used |-> "hierarchical"]
EarlierClusters == Arr(ProcessClusteringResult(EarlierRun, SmallPapers).clusters)
\* a related-work cache: the papers, the day of the write, and the run of
\* periodicRelatedWorkFetch that wrote it (a history field; 0 for an earlier session)
Cache(papers, day, by) ==
    [kind |-> "object", papers |-> papers, fetched_date |-> day, by |-> by]
StaleCache == Cache(Arr(<<>>), 0, 0)
FirstFreshId == HighWaterMark + 2

\* The persisted state a popup can find when it opens: the store right after
\* initializeStorage, and a small library with the clusters of an earlier run
SmallStores ==
    { [papers |-> <<>>, clusters |-> Arr(<<>>), related |-> Undef],
      [papers |-> SmallPapers, clusters |-> EarlierClusters, related |-> Undef] }
\* a library over the high-water mark whose first HighWaterMark papers are more than a
\* year old, with and without an old related-work cache
BigStores ==
    { [papers |-> BigPapers, clusters |-> EarlierClusters, related |-> StaleCache],
      [papers |-> BigPapers, clusters |-> EarlierClusters, related |-> Undef] }

\* initializeStorage's and migrateData's settings, and settings an earlier version of
\* the extension stored
DefaultSettings ==
    [kind |-> "object", autoCluster |-> TRUE, clusterThreshold |-> "0.7",
     apiEndpoint |-> "apiBaseUrl", audioSummary |-> TRUE,
     relatedWorkFrequency |-> "daily"]
EarlierSettings ==
    [DefaultSettings EXCEPT !.autoCluster = FALSE, !.relatedWorkFrequency = "weekly"]
Version == [kind |-> "string", value |-> "1.0.0"]
\* the updates object of migrateData: which keys it is going to set
NoUpdates == [settings |-> FALSE, userPreferences |-> FALSE]
\* the settings and version of a store that initializeStorage wrote
InstalledStore ==
    /\ stSettings = DefaultSettings
    /\ stVersion = Version
    /\ installed = TRUE

InitFrom(stores) ==
    /\ \E s \in stores :
          /\ stPapers = s.papers
          /\ stClusters = s.clusters
          /\ stRelated = s.related
          /\ lib0 = s.papers
    /\ stLastUpdated = 0
    /\ currentPapers = [c \in Ctx |-> <<>>]
    /\ currentClusters = [c \in Ctx |-> Arr(<<>>)]
    /\ pc = [c \in Ctx |-> "init"]
    /\ files = [c \in Ctx |-> <<>>]
    /\ bg = [c \in Ctx |-> "idle"]
    /\ req = [c \in Ctx |-> NoReq]
    /\ resp = [c \in Ctx |-> NoResp]
    /\ isProcessing = FALSE
    /\ cleanPc = "idle"
    /\ cleanData = [papers |-> <<>>, related |-> Undef]
    /\ now = NowStart
    /\ nextId = FirstFreshId
    /\ uploads = 0
    /\ added = <<>>
    /\ deleted = {}
    /\ evicted = {}
    /\ shown = [c \in Ctx |-> Undef]
    /\ currentFilter = [c \in Ctx |-> "all"]
    /\ fileDataBound \in BOOLEAN
    /\ served = [c \in Ctx |-> NoReq]
    /\ apiCall = NoReq
    /\ stDB = <<>>
    /\ docWin = [w \in Ctx |-> IdleWin]
    /\ clockMs = 0
    /\ docCalls = 0
    /\ docSaved = <<>>
    /\ viewedSuggestions = Undef
    /\ suggestList = <<>>
    /\ clickHandlers = [h \in 1..MaxClicks |-> NoHandler]
    /\ clicks = 0
    /\ cleared = FALSE
    /\ localRuns = <<>>
    /\ fetchers = [k \in 1..MaxFetches |-> NoFetch]
    /\ fetchCount = 0
    /\ searchQuery = <<>>
    /\ searchShown = Undef
    /\ batches = [k \in 1..MaxBatches |-> NoBatch]
    /\ pageReq = NoReq
    /\ pageResp = NoResp
    /\ pageAsked = <<>>
    /\ exportRead = [c \in Ctx |-> Undef]
    /\ addStored = Undef
    /\ instPc = "idle"
    /\ instRead = NoUpdates
    /\ instEvents = 0

\* initializeStorage and migrateData store userPreferences with researchInterests: []
Init ==
    /\ InitFrom(SmallStores)
    /\ localPapers = <<>>
    /\ stInterests = Arr(<<>>)
    /\ InstalledStore
    /\ searchPapers = <<>>
    /\ mgrPapers = <<>>
    /\ addRecord = Undef
InitBig ==
    /\ InitFrom(BigStores)
    /\ localPapers = <<>>
    /\ stInterests = Arr(<<>>)
    /\ InstalledStore
    /\ searchPapers = <<>>
    /\ mgrPapers = <<>>
    /\ addRecord = Undef


\* =================================================== popup: LiteratureManager
\* loadData: one storage.get of papers and clusters; a missing or falsy value reads as []
LoadData(c) ==
    /\ pc[c] = "init"
    /\ currentPapers' = [currentPapers EXCEPT ![c] = stPapers]
    /\ currentClusters' = [currentClusters EXCEPT ![c] =
                              IF stClusters = Undef THEN Arr(<<>>) ELSE stClusters]
    /\ pc' = [pc EXCEPT ![c] = "idle"]
    /\ UNCHANGED <<storeVars, files, resp, shown, fileDataBound, currentFilter, bgVars,
                   cleanVars, histVars, now, gwVars, docVars, suggestVars, localVars,
                   fetchVars, queryVars, batchVars, pageVars, exportVars, addVars,
                   installVars>>

\* handleFileUpload(files), n files selected, up to the first await that leaves the
\* popup: the first file is read and analyzeDocument sends ANALYZE_DOCUMENT for it
SendAnalyze(c) == req' = [req EXCEPT ![c] = Message("ANALYZE_DOCUMENT", Obj)]

HandleFileUpload(c, n) ==
    /\ pc[c] = "idle"
    /\ n >= 1
    /\ uploads + n <= MaxUploads
    /\ files' = [files EXCEPT ![c] =
                    [i \in 1..n |-> [name |-> FileNameOf(uploads + i), up |-> uploads + i]]]
    /\ uploads' = uploads + n
    /\ SendAnalyze(c)
    /\ pc' = [pc EXCEPT ![c] = "analyze"]
    /\ UNCHANGED <<storeVars, currentPapers, currentClusters, resp, shown,
                   fileDataBound, currentFilter, bg, isProcessing, nextId, cleanVars,
                   added, deleted, lib0, now, gwVars, docVars, suggestVars, localVars,
                   fetchVars, queryVars, batchVars, pageVars, exportVars, addVars,
                   installVars>>

\* LiteratureManager.analyzeDocument's return value for a response: response.data when
\* response.success, undefined when the thrown Error is caught and logged
AnalysisResults(response) == IF response.success THEN response.data ELSE Undef

\* storePaper's paperData: the spread of analysisResults (nothing when it is undefined)
\* plus local_file and processed_date
PaperData(analysisResults, file) ==
    [id |-> IF analysisResults.kind = "object" THEN analysisResults.id ELSE NoId,
     file |-> file.name,
     date |-> now,
     up |-> file.up]

\* the response to ANALYZE_DOCUMENT arrives: analyzeDocument returns and storePaper
\* pushes the paper and writes papers and lastUpdated
StorePaper(c) ==
    /\ pc[c] = "analyze"
    /\ resp[c] # NoResp
    /\ LET paper == PaperData(AnalysisResults(resp[c]), Head(files[c]))
           papers == Append(currentPapers[c], paper)
       IN /\ currentPapers' = [currentPapers EXCEPT ![c] = papers]
          /\ stPapers' = papers
          /\ stLastUpdated' = now
          /\ added' = Append(added, paper)
    /\ resp' = [resp EXCEPT ![c] = NoResp]
    /\ files' = [files EXCEPT ![c] = Tail(files[c])]
    /\ pc' = [pc EXCEPT ![c] = "stored"]
    /\ UNCHANGED <<stClusters, stRelated, currentClusters, shown, fileDataBound, currentFilter,
                   bgVars, cleanVars, uploads, deleted, lib0, now, gwVars, docVars,
                   suggestVars, localVars, fetchVars, queryVars, batchVars, pageVars,
                   exportVars, addVars, installVars>>

\* storePaper when chrome.storage.local.set rejects (the quota is exceeded): the paper
\* is already pushed onto currentPapers, the rejection leaves storePaper and the loop,
\* and handleFileUpload's catch displays 'Error processing files' with the message
StorePaperFails(c) ==
    /\ pc[c] = "analyze"
    /\ resp[c] # NoResp
    /\ currentPapers' = [currentPapers EXCEPT ![c] =
                            Append(@, PaperData(AnalysisResults(resp[c]), Head(files[c])))]
    /\ resp' = [resp EXCEPT ![c] = NoResp]
    /\ files' = [files EXCEPT ![c] = <<>>]
    /\ pc' = [pc EXCEPT ![c] = "failed"]
    /\ UNCHANGED <<storeVars, currentClusters, shown, fileDataBound, currentFilter,
                   bgVars, cleanVars, histVars, now, gwVars, docVars, suggestVars,
                   localVars, fetchVars, queryVars, batchVars, pageVars, exportVars,
                   addVars, installVars>>

\* handleFileUpload returns from its catch
UploadFailed(c) ==
    /\ pc[c] = "failed"
    /\ pc' = [pc EXCEPT ![c] = "idle"]
    /\ UNCHANGED <<storeVars, currentPapers, currentClusters, files, resp, shown,
                   fileDataBound, currentFilter, bgVars, cleanVars, histVars, now, gwVars,
                   docVars, suggestVars, localVars, fetchVars, queryVars, batchVars,
                   pageVars, exportVars, addVars, installVars>>

\* performClustering up to its await: nothing below 2 papers; the payload literal
\* { fileData } throws a ReferenceError when fileData does not resolve (caught and
\* logged), otherwise PERFORM_CLUSTERING is sent with that object as data
ClusteringSent(c) == Len(currentPapers[c]) >= 2 /\ fileDataBound

StartClustering(c) ==
    IF ClusteringSent(c)
    THEN /\ req' = [req EXCEPT ![c] = Message("PERFORM_CLUSTERING", Obj)]
         /\ pc' = [pc EXCEPT ![c] = "cluster"]
    ELSE /\ req' = req
         /\ pc' = [pc EXCEPT ![c] = "idle"]

\* handleFileUpload after storePaper's write: the next file, or the end of the loop
\* and performClustering when the popup holds at least 2 papers
AfterStore(c) ==
    /\ pc[c] = "stored"
    /\ IF files[c] # <<>>
       THEN SendAnalyze(c) /\ pc' = [pc EXCEPT ![c] = "analyze"]
       ELSE StartClustering(c)
    /\ UNCHANGED <<storeVars, currentPapers, currentClusters, files, resp, shown,
                   fileDataBound, currentFilter, bg, isProcessing, nextId, cleanVars, histVars, now, gwVars, docVars,
                   suggestVars, localVars, fetchVars, queryVars, batchVars, pageVars,
                   exportVars, addVars, installVars>>

\* the recluster button
Recluster(c) ==
    /\ pc[c] = "idle"
    /\ StartClustering(c)
    /\ UNCHANGED <<storeVars, currentPapers, currentClusters, files, resp, shown,
                   fileDataBound, currentFilter, bg, isProcessing, nextId, cleanVars, histVars, now, gwVars, docVars,
                   suggestVars, localVars, fetchVars, queryVars, batchVars, pageVars,
                   exportVars, addVars, installVars>>

\* performClustering after its await: currentClusters becomes what sendMessage resolved
\* with, and that value is written to clusters; updateClustersPreview then throws on a
\* value without map, which the catch logs
InstallClusters(c) ==
    /\ pc[c] = "cluster"
    /\ resp[c] # NoResp
    /\ currentClusters' = [currentClusters EXCEPT ![c] = resp[c]]
    /\ stClusters' = resp[c]
    /\ resp' = [resp EXCEPT ![c] = NoResp]
    /\ pc' = [pc EXCEPT ![c] = "idle"]
    /\ UNCHANGED <<stPapers, stLastUpdated, stRelated, currentPapers, files, shown,
                   fileDataBound, currentFilter, bgVars, cleanVars, histVars, now, gwVars, docVars,
                   suggestVars, localVars, fetchVars, queryVars, batchVars, pageVars,
                   exportVars, addVars, installVars>>

\* deletePaper's filters: the paper out of the list, the paper out of every cluster,
\* the clusters left empty out of the list
WithoutPaper(papers, paperId) == SelectSeq(papers, LAMBDA p : p.id # paperId)
StripCluster(cluster, paperId) ==
    [cluster EXCEPT !.papers = WithoutPaper(cluster.papers, paperId)]
\* deletePaper without its "Remove empty clusters" filter
StripClustersKeepingEmpty(clusters, paperId) ==
    [i \in DOMAIN clusters |-> StripCluster(clusters[i], paperId)]
StripClusters(clusters, paperId) ==
    SelectSeq([i \in DOMAIN clusters |-> StripCluster(clusters[i], paperId)],
              LAMBDA cl : Len(cl.papers) > 0)

\* the ids deletePaper can be called with: the delete button of a paper detail popup
\* carries the id showPaperDetail found in currentPapers when the popup was rendered
\* (never the missing id, which the card attribute turns into the text "undefined"),
\* and the button keeps it afterwards, so the id of a paper already deleted is possible
DeletableIds(c) == (IdsOf(currentPapers[c]) \cup deleted) \ {NoId}

\* what deletePaper evaluates to for its caller: it has no return statement
DeletePaperReturn(c, paperId) == "undefined"

\* deletePaper(paperId) with the answer to confirm(). On a currentClusters that is no
\* array forEach throws after currentPapers was filtered and before anything is
\* written. (The trailing performSearch runs only while the search popup is displayed,
\* and showPopup hid it when the detail popup that holds the delete button opened.)
DeletePaper(c, paperId, confirmed) ==
    /\ pc[c] # "init"
    /\ paperId \in DeletableIds(c)
    /\ IF ~confirmed
       THEN UNCHANGED <<stPapers, stClusters, currentPapers, currentClusters, deleted, suggestVars,
                   localVars, fetchVars, queryVars, batchVars, pageVars, exportVars,
                   addVars, installVars>>
       ELSE /\ currentPapers' = [currentPapers EXCEPT ![c] = WithoutPaper(@, paperId)]
            /\ deleted' = deleted \cup {paperId}
            /\ IF IsArray(currentClusters[c])
               THEN LET clusters == Arr(StripClusters(currentClusters[c].items, paperId))
                    IN /\ currentClusters' = [currentClusters EXCEPT ![c] = clusters]
                       /\ stPapers' = WithoutPaper(currentPapers[c], paperId)
                       /\ stClusters' = clusters
               ELSE UNCHANGED <<stPapers, stClusters, currentClusters, suggestVars, localVars, fetchVars,
                   queryVars, batchVars, pageVars, exportVars, addVars, installVars>>
    /\ UNCHANGED <<stLastUpdated, stRelated, pc, files, resp, shown, fileDataBound,
                   currentFilter, bgVars, cleanVars, uploads, added, lib0, now, gwVars, docVars,
                   suggestVars, localVars, fetchVars, queryVars, batchVars, pageVars,
                   exportVars, addVars, installVars>>

\* performSearch with currentFilter = filter and an empty searchQuery: all the papers,
\* or the papers of the selected cluster when find returns one; find throws on a
\* currentClusters that is no array
Filters(c) ==
    {"all"} \cup (IF IsArray(currentClusters[c])
                  THEN {ToString(cl.id) : cl \in Range(currentClusters[c].items)}
                  ELSE {})
FilteredPapers(papers, clusters, filter) ==
    IF filter = "all" THEN Arr(papers)
    ELSE IF ~IsArray(clusters) THEN TypeError
    ELSE LET hit == SelectSeq(clusters.items, LAMBDA cl : ToString(cl.id) = filter)
         IN IF hit # <<>> THEN Arr(Head(hit).papers) ELSE Arr(papers)

\* performSearch: what displaySearchResults is given, or the TypeError thrown
PerformSearch(c) ==
    /\ pc[c] # "init"
    /\ shown' = [shown EXCEPT ![c] =
                    FilteredPapers(currentPapers[c], currentClusters[c], currentFilter[c])]
    /\ UNCHANGED <<storeVars, currentPapers, currentClusters, pc, files, resp,
                   fileDataBound, currentFilter, bgVars, cleanVars, histVars, now, gwVars, docVars,
                   suggestVars, localVars, fetchVars, queryVars, batchVars, pageVars,
                   exportVars, addVars, installVars>>

\* setSearchFilter(filter) from a filter button, then performSearch
SetSearchFilter(c, filter) ==
    /\ pc[c] # "init"
    /\ filter \in Filters(c)
    /\ currentFilter' = [currentFilter EXCEPT ![c] = filter]
    /\ shown' = [shown EXCEPT ![c] =
                    FilteredPapers(currentPapers[c], currentClusters[c], filter)]
    /\ UNCHANGED <<storeVars, currentPapers, currentClusters, pc, files, resp,
                   fileDataBound, bgVars, cleanVars, histVars, now, gwVars, docVars,
                   suggestVars, localVars, fetchVars, queryVars, batchVars, pageVars,
                   exportVars, addVars, installVars>>

\* the popup window closes; the next one starts from the constructor's state
ClosePopup(c) ==
    /\ pc[c] = "idle"
    /\ currentPapers' = [currentPapers EXCEPT ![c] = <<>>]
    /\ currentClusters' = [currentClusters EXCEPT ![c] = Arr(<<>>)]
    /\ pc' = [pc EXCEPT ![c] = "init"]
    /\ shown' = [shown EXCEPT ![c] = Undef]
    /\ currentFilter' = [currentFilter EXCEPT ![c] = "all"]
    /\ UNCHANGED <<storeVars, files, resp, fileDataBound, bgVars, cleanVars, histVars, now, gwVars, docVars,
                   suggestVars, localVars, fetchVars, queryVars, batchVars, pageVars,
                   exportVars, addVars, installVars>>

\* ================================================ background: BackgroundService
Pending(c, type) == req[c].kind = "message" /\ req[c].type = type

\* an analyzeDocument without the isProcessing test at its head
AnalyzeBeginUnguarded(c) ==
    /\ Pending(c, "ANALYZE_DOCUMENT")
    /\ bg[c] = "idle"
    /\ isProcessing' = TRUE
    /\ bg' = [bg EXCEPT ![c] = "fetch"]
    /\ UNCHANGED <<storeVars, currentPapers, currentClusters, pc, files, shown, resp, req,
                   fileDataBound, currentFilter, nextId, cleanVars, histVars, now, gwVars,
                   docVars, suggestVars, localVars, fetchVars, queryVars, batchVars,
                   pageVars, exportVars, addVars, installVars>>

\* handleMessage ANALYZE_DOCUMENT up to analyzeDocument's await: a request that finds
\* isProcessing set is answered with the thrown error, otherwise the flag is set and
\* sendPdfToPython's fetch is under way
AnalyzeBegin(c) ==
    /\ Pending(c, "ANALYZE_DOCUMENT")
    /\ bg[c] = "idle"
    /\ IF isProcessing
       THEN /\ resp' = [resp EXCEPT ![c] =
                           Failure("Another document is currently being processed")]
            /\ req' = [req EXCEPT ![c] = NoReq]
            /\ UNCHANGED <<bg, isProcessing, suggestVars, localVars, fetchVars, queryVars, batchVars,
                   pageVars, exportVars, addVars, installVars>>
       ELSE /\ isProcessing' = TRUE
            /\ bg' = [bg EXCEPT ![c] = "fetch"]
            /\ UNCHANGED <<resp, req, suggestVars, localVars, fetchVars, queryVars, batchVars, pageVars,
                   exportVars, addVars, installVars>>
    /\ UNCHANGED <<storeVars, currentPapers, currentClusters, pc, files, shown,
                   fileDataBound, currentFilter, nextId, cleanVars, histVars, now, gwVars, docVars,
                   suggestVars, localVars, fetchVars, queryVars, batchVars, pageVars,
                   exportVars, addVars, installVars>>

\* analyzeDocument's result: sendPdfToPython returns nothing, so a fetch that succeeds
\* gives { id: generateUniqueId(), file_info }; one that throws is logged by the catch
\* and analyzeDocument returns undefined
AnalyzeResult(gatewayOk) ==
    IF gatewayOk THEN [kind |-> "object", id |-> nextId] ELSE Undef

AnalyzeEnd(c, gatewayOk) ==
    /\ Pending(c, "ANALYZE_DOCUMENT")
    /\ bg[c] = "fetch"
    /\ resp' = [resp EXCEPT ![c] = Success(AnalyzeResult(gatewayOk))]
    /\ nextId' = IF gatewayOk THEN nextId + 1 ELSE nextId
    /\ isProcessing' = FALSE
    /\ bg' = [bg EXCEPT ![c] = "idle"]
    /\ req' = [req EXCEPT ![c] = NoReq]
    /\ UNCHANGED <<storeVars, currentPapers, currentClusters, pc, files, shown,
                   fileDataBound, currentFilter, cleanVars, histVars, now, gwVars, docVars,
                   suggestVars, localVars, fetchVars, queryVars, batchVars, pageVars,
                   exportVars, addVars, installVars>>

\* handleMessage PERFORM_CLUSTERING up to performClustering's fetch. On data that is no
\* array papers.map throws inside the try, the catch calls performLocalClustering,
\* whose papers.forEach throws out of the catch, and handleMessage answers with that
\* error.
ClusteringBegin(c) ==
    /\ Pending(c, "PERFORM_CLUSTERING")
    /\ bg[c] = "idle"
    /\ IF IsArray(req[c].data)
       THEN /\ bg' = [bg EXCEPT ![c] = "fetch"]
            /\ UNCHANGED <<resp, req, suggestVars, localVars, fetchVars, queryVars, batchVars, pageVars,
                   exportVars, addVars, installVars>>
       ELSE /\ resp' = [resp EXCEPT ![c] = Failure("papers.forEach is not a function")]
            /\ req' = [req EXCEPT ![c] = NoReq]
            /\ bg' = bg
    /\ UNCHANGED <<storeVars, currentPapers, currentClusters, pc, files, shown,
                   fileDataBound, currentFilter, isProcessing, nextId, cleanVars,
                   histVars, now, gwVars, docVars, suggestVars, localVars, fetchVars,
                   queryVars, batchVars, pageVars, exportVars, addVars, installVars>>

\* ------------------------------------------ performClustering and its fallback
\* Object.prototype's properties, which a lookup in the object literal {} finds
InheritedKeys == {Constructor}
\* paper.keywords[0] || 'general'
MainKeyword(paper) ==
    LET keywords == paper.keywords.items
    IN IF keywords # <<>> /\ Head(keywords) # <<>> THEN Head(keywords) ELSE General
\* performLocalClustering's forEach throws on a paper without a keywords array (reading
\* [0] of undefined) and on a main keyword the empty object inherits (the value found
\* is no array to push to)
LocalThrows(papers) ==
    \E i \in DOMAIN papers :
        \/ ~IsArray(papers[i].keywords)
        \/ MainKeyword(papers[i]) \in InheritedKeys
LocalError(papers) ==
    LET i == CHOOSE k \in DOMAIN papers :
                 /\ ~IsArray(papers[k].keywords) \/ MainKeyword(papers[k]) \in InheritedKeys
                 /\ \A j \in 1..(k - 1) :
                       IsArray(papers[j].keywords) /\ MainKeyword(papers[j]) \notin InheritedKeys
    IN IF ~IsArray(papers[i].keywords)
       THEN "Cannot read properties of undefined (reading '0')"
       ELSE "keywordGroups[mainKeyword].push is not a function"
\* keywordGroups after the forEach: its own properties in insertion order
AddToGroup(groups, paper) ==
    LET key == MainKeyword(paper)
    IN IF \E i \in DOMAIN groups : groups[i].key = key
       THEN [i \in DOMAIN groups |->
                IF groups[i].key = key
                THEN [groups[i] EXCEPT !.papers = Append(@, paper)]
                ELSE groups[i]]
       ELSE Append(groups, [key |-> key, papers |-> <<paper>>])
RECURSIVE KeywordGroups(_, _)
KeywordGroups(groups, papers) ==
    IF papers = <<>> THEN groups
    ELSE KeywordGroups(AddToGroup(groups, Head(papers)), Tail(papers))
\* Object.entries order: the keys that are array indices first, by value, then the
\* other keys as inserted (an index is taken to have at most nine digits)
IsArrayIndex(key) ==
    /\ key # <<>>
    /\ Len(key) <= 9
    /\ \A i \in DOMAIN key : key[i] \in Range(Digits)
    /\ Len(key) > 1 => key[1] # "0"
ObjectEntries(groups) ==
    LET indexed == SelectSeq(groups, LAMBDA g : IsArrayIndex(g.key))
        others == SelectSeq(groups, LAMBDA g : ~IsArrayIndex(g.key))
        Rank(g) == 1 + Cardinality({h \in Range(indexed) :
                                       NumericValue(h.key) < NumericValue(g.key)})
    IN [r \in DOMAIN indexed |-> CHOOSE g \in Range(indexed) : Rank(g) = r] \o others
LocalClusterDated(entry, index) ==
    [id |-> index + 1,
     name |-> CapitalizeFirstLetter(entry.key),
     color |-> GenerateClusterColor(index + now),
     papers |-> entry.papers,
     created_date |-> now]
LocalCluster(entry, index) ==
    [id |-> index + 1,
     name |-> CapitalizeFirstLetter(entry.key),
     color |-> GenerateClusterColor(index),
     papers |-> entry.papers,
     created_date |-> now]
\* BackgroundService.performLocalClustering on papers it does not throw on
PerformLocalClustering(papers) ==
    LET entries == SelectSeq(ObjectEntries(KeywordGroups(<<>>, papers)),
                             LAMBDA e : Len(e.papers) >= 1)
    IN [clusters |-> [i \in DOMAIN entries |-> LocalCluster(entries[i], i - 1)],
        algorithm |-> "keyword_based_local"]

\* what the gateway call of performClustering can come to: fetch rejects, the status is
\* not ok, the body is no JSON, or the body parses to a result
GatewayOk(outcome) == outcome.kind = "json"
\* processClusteringResult throws on a result whose clusters is no array and on a
\* cluster whose paper_ids is no array
ProcessThrows(apiResult) ==
    \/ ~IsArray(apiResult.clusters)
    \/ \E cluster \in Range(apiResult.clusters.items) : ~IsArray(cluster.paper_ids)
\* BackgroundService.performClustering(papers) on an array: the processed gateway
\* result, or from the catch the local clustering, which may throw in turn
ViaGateway(outcome) == GatewayOk(outcome) /\ ~ProcessThrows(outcome.result)
PerformClusteringResponse(papers, outcome) ==
    IF ViaGateway(outcome) THEN Success(ProcessClusteringResult(outcome.result, papers))
    ELSE IF LocalThrows(papers) THEN Failure(LocalError(papers))
    ELSE Success(PerformLocalClustering(papers))

\* handleMessage PERFORM_CLUSTERING from the fetch on
ClusteringEnd(c, outcome) ==
    /\ Pending(c, "PERFORM_CLUSTERING")
    /\ bg[c] = "fetch"
    /\ resp' = [resp EXCEPT ![c] = PerformClusteringResponse(req[c].data.items, outcome)]
    /\ served' = [served EXCEPT ![c] =
                     [kind |-> "served", papers |-> req[c].data.items, outcome |-> outcome]]
    /\ bg' = [bg EXCEPT ![c] = "idle"]
    /\ req' = [req EXCEPT ![c] = NoReq]
    /\ UNCHANGED <<storeVars, currentPapers, currentClusters, pc, files, shown,
                   fileDataBound, currentFilter, isProcessing, nextId, cleanVars,
                   histVars, now, apiCall, docVars, suggestVars, localVars, fetchVars,
                   queryVars, batchVars, pageVars, exportVars, addVars, installVars>>

\* ------------------------------------------------- LiteratureAPI (api_interfaces.js)
\* formatClusteringResponse's cluster: cluster_id, cluster_name and paper_ids with
\* their defaults; the member list is paper_ids as the gateway gave it
FormatClusterName(cluster, index) ==
    IF "cluster_name" \in DOMAIN cluster /\ cluster.cluster_name # <<>>
    THEN cluster.cluster_name
    ELSE ClusterPrefix \o DecimalString(index + 1)
\* cluster.cluster_id || `cluster_${index + 1}`: the number n stands for cluster_<n>
FormatClusterId(cluster, index) ==
    IF "cluster_id" \in DOMAIN cluster /\ cluster.cluster_id # NoId
    THEN cluster.cluster_id
    ELSE index + 1
FormatCluster(cluster, index) ==
    [id |-> FormatClusterId(cluster, index),
     name |-> FormatClusterName(cluster, index),
     color |-> GenerateClusterColor(index),
     papers |-> IF IsArray(cluster.paper_ids) THEN cluster.paper_ids.items ELSE <<>>]
FormatClusteringResponse(response) ==
    [clusters |-> [i \in DOMAIN response.clusters.items |->
                      FormatCluster(response.clusters.items[i], i - 1)],
     algorithm |-> response.algorithm_used]
\* LiteratureAPI.performClustering rethrows what makeRequest throws (fetch rejected,
\* status not ok, body no JSON) and what formatClusteringResponse throws (clusters no
\* array)
ApiThrows(outcome) == ~GatewayOk(outcome) \/ ~IsArray(outcome.result.clusters)
ApiClusteringBegin(papers) ==
    /\ apiCall = NoReq
    /\ \A c \in Ctx : req[c] = NoReq /\ resp[c] = NoResp
    /\ apiCall' = [kind |-> "pending", papers |-> papers]
    /\ UNCHANGED <<storeVars, popupVars, bgVars, served, cleanVars, histVars, now, docVars,
                   suggestVars, localVars, fetchVars, queryVars, batchVars, pageVars,
                   exportVars, addVars, installVars>>
ApiClusteringEnd(outcome) ==
    /\ apiCall.kind = "pending"
    /\ apiCall' = [kind |-> IF ApiThrows(outcome) THEN "thrown" ELSE "result",
                   papers |-> apiCall.papers,
                   outcome |-> outcome,
                   value |-> IF ApiThrows(outcome) THEN Undef
                             ELSE FormatClusteringResponse(outcome.result)]
    /\ UNCHANGED <<storeVars, popupVars, bgVars, served, cleanVars, histVars, now, docVars,
                   suggestVars, localVars, fetchVars, queryVars, batchVars, pageVars,
                   exportVars, addVars, installVars>>
ApiCallerDone ==
    /\ apiCall.kind \in {"result", "thrown"}
    /\ apiCall' = NoReq
    /\ UNCHANGED <<storeVars, popupVars, bgVars, served, cleanVars, histVars, now, docVars,
                   suggestVars, localVars, fetchVars, queryVars, batchVars, pageVars,
                   exportVars, addVars, installVars>>

\* ----------------------------------------------- a caller of PERFORM_CLUSTERING
\* the i-th smallest element of a set of numbers, as a sequence
SortedSeq(S) ==
    [i \in 1..Cardinality(S) |->
        CHOOSE x \in S : Cardinality({y \in S : y < x}) = i - 1]
\* the keywords a paper record can carry: none, an empty list, lists with a word, a
\* number or an inherited property name first
KeywordLists == {Undef, Arr(<<>>), Arr(<<Ml>>), Arr(<<Seven, Ml>>), Arr(<<Constructor>>)}
\* the papers arrays a caller passes: papers of distinct ids, in id order
GwRequests ==
    UNION {{[i \in DOMAIN SortedSeq(S) |-> [id |-> SortedSeq(S)[i], keywords |-> kw[i]]] :
               kw \in [DOMAIN SortedSeq(S) -> KeywordLists]} :
           S \in SUBSET (1..MaxGwPapers)}
\* the bodies the gateway can answer with: up to MaxGwClusters clusters, the first one
\* named, each naming no id, one id or every id up to MaxGwPapers (known to the request
\* or not) or lacking paper_ids, and a body without clusters
PaperIdValues ==
    {Arr(<<>>), Arr(SortedSeq(1..MaxGwPapers)), Undef}
    \cup {Arr(<<id>>) : id \in 1..MaxGwPapers}
GatewayResults ==
    {[kind |-> "object",
      clusters |-> Arr([i \in 1..n |->
                          [name |-> IF i = 1 THEN Vision ELSE <<>>, paper_ids |-> ids[i]]]),
      algorithm_used |-> "hierarchical"] :
        n \in 0..MaxGwClusters, ids \in [1..MaxGwClusters -> PaperIdValues]}
    \cup {[kind |-> "object", clusters |-> Undef, algorithm_used |-> "hierarchical"]}
GatewayOutcomes ==
    {[kind |-> "unreachable"], [kind |-> "status"], [kind |-> "text"]}
    \cup {[kind |-> "json", result |-> r] : r \in GatewayResults}

\* chrome.runtime.sendMessage({ type: 'PERFORM_CLUSTERING', data: papers }) as the
\* message contract has it
CallerSendsClustering(c, papers) ==
    /\ req[c] = NoReq
    /\ resp[c] = NoResp
    /\ apiCall = NoReq
    /\ req' = [req EXCEPT ![c] = Message("PERFORM_CLUSTERING", Arr(papers))]
    /\ UNCHANGED <<storeVars, popupVars, bg, isProcessing, nextId, gwVars, cleanVars,
                   histVars, now, docVars, suggestVars, localVars, fetchVars, queryVars,
                   batchVars, pageVars, exportVars, addVars, installVars>>
CallerTakesResponse(c) ==
    /\ resp[c] # NoResp
    /\ resp' = [resp EXCEPT ![c] = NoResp]
    /\ served' = [served EXCEPT ![c] = NoReq]
    /\ UNCHANGED <<storeVars, currentPapers, currentClusters, pc, files, shown,
                   fileDataBound, currentFilter, bgVars, apiCall, cleanVars, histVars, now, docVars,
                   suggestVars, localVars, fetchVars, queryVars, batchVars, pageVars,
                   exportVars, addVars, installVars>>

\* --------------------------------- lightweight variant: saveDoc (part_002)

\* the analyze button's click handler up to mockAnalyzePDF's one-second timer; the
\* button is disabled until the handler has finished
ClickAnalyze(w) ==
    /\ docWin[w].pc = "idle"
    /\ docCalls < MaxDocs
    /\ docCalls' = docCalls + 1
    /\ docWin' = [docWin EXCEPT ![w] =
                     [pc |-> "analyzing", db |-> <<>>, up |-> docCalls + 1,
                      clicked |-> clockMs]]
    /\ UNCHANGED <<storeVars, popupVars, bgVars, gwVars, cleanVars, histVars, now,
                   stDB, clockMs, docSaved, suggestVars, localVars, fetchVars, queryVars,
                   batchVars, pageVars, exportVars, addVars, installVars>>

\* saveDoc up to the await: the timer has fired, so time has passed since the click,
\* and loadDB's get has read the stored documents (none when the key is missing)
SaveDocLoad(w) ==
    /\ docWin[w].pc = "analyzing"
    /\ clockMs > docWin[w].clicked
    /\ docWin' = [docWin EXCEPT ![w].pc = "loaded", ![w].db = stDB]
    /\ UNCHANGED <<storeVars, popupVars, bgVars, gwVars, cleanVars, histVars, now,
                   stDB, clockMs, docCalls, docSaved, suggestVars, localVars, fetchVars,
                   queryVars, batchVars, pageVars, exportVars, addVars, installVars>>

\* saveDoc after the await: the id is Date.now() as text, the document is pushed onto
\* the documents that were read, and the whole database is set
SavedDoc(w) == [id |-> clockMs, up |-> docWin[w].up]
SaveDocWrite(w) ==
    /\ docWin[w].pc = "loaded"
    /\ stDB' = Append(docWin[w].db, SavedDoc(w))
    /\ docSaved' = Append(docSaved, SavedDoc(w))
    /\ docWin' = [docWin EXCEPT ![w] = IdleWin]
    /\ UNCHANGED <<storeVars, popupVars, bgVars, gwVars, cleanVars, histVars, now,
                   clockMs, docCalls, suggestVars, localVars, fetchVars, queryVars,
                   batchVars, pageVars, exportVars, addVars, installVars>>

\* renderPapers of the lightweight popup: the last five papers, the newest first
Reverse(s) == [i \in DOMAIN s |-> s[Len(s) + 1 - i]]
SliceLast(s, n) == SubSeq(s, IF Len(s) > n THEN Len(s) - n + 1 ELSE 1, Len(s))
RenderPapers(papers) == Reverse(SliceLast(papers, LatestShown))

ClockTick ==
    /\ clockMs < MaxMs
    /\ clockMs' = clockMs + 1
    /\ UNCHANGED <<storeVars, popupVars, bgVars, gwVars, cleanVars, histVars, now,
                   stDB, docWin, docCalls, docSaved, suggestVars, localVars, fetchVars,
                   queryVars, batchVars, pageVars, exportVars, addVars, installVars>>

\* -------------------------------------------------------- cleanupOldData
\* the papers cleanupOldData keeps: processed_date after one year before now
RecentPapers(papers) == SelectSeq(papers, LAMBDA p : p.date > now - OneYear)
CacheIsOld(cache) == cache # Undef /\ now - cache.fetched_date > RetentionDays

\* what the papers part of cleanupOldData does with the snapshot it read
CleanupPapers ==
    IF /\ Len(cleanData.papers) > HighWaterMark
       /\ Len(RecentPapers(cleanData.papers)) # Len(cleanData.papers)
    THEN /\ stPapers' = RecentPapers(cleanData.papers)
         /\ evicted' = evicted \cup (IdsOf(cleanData.papers) \ IdsOf(RecentPapers(cleanData.papers)))
    ELSE UNCHANGED <<stPapers, evicted>>

\* storage.get(null)
CleanupRead ==
    /\ cleanPc = "idle"
    /\ cleanData' = [papers |-> stPapers, related |-> stRelated]
    /\ cleanPc' = "read"
    /\ UNCHANGED <<storeVars, popupVars, bgVars, evicted, histVars, now, gwVars, docVars,
                   suggestVars, localVars, fetchVars, queryVars, batchVars, pageVars,
                   exportVars, addVars, installVars>>

\* the continuation of the get: an old cache is removed, which is one more await;
\* otherwise the papers part runs at once
CleanupCache ==
    /\ cleanPc = "read"
    /\ IF CacheIsOld(cleanData.related)
       THEN /\ stRelated' = Undef
            /\ cleanPc' = "removed"
            /\ UNCHANGED <<stPapers, evicted>>
       ELSE /\ CleanupPapers
            /\ cleanPc' = "idle"
            /\ stRelated' = stRelated
    /\ UNCHANGED <<stClusters, stLastUpdated, cleanData, popupVars, bgVars, histVars, now, gwVars, docVars,
                   suggestVars, localVars, fetchVars, queryVars, batchVars, pageVars,
                   exportVars, addVars, installVars>>

\* the continuation of the remove
CleanupAfterRemove ==
    /\ cleanPc = "removed"
    /\ CleanupPapers
    /\ cleanPc' = "idle"
    /\ UNCHANGED <<stClusters, stLastUpdated, stRelated, cleanData, popupVars, bgVars,
                   histVars, now, gwVars, docVars, suggestVars, localVars, fetchVars,
                   queryVars, batchVars, pageVars, exportVars, addVars, installVars>>

\* a day passes
Tick ==
    /\ now < NowStart + MaxTicks
    /\ now' = now + 1
    /\ UNCHANGED <<storeVars, popupVars, bgVars, gwVars, cleanVars, histVars, docVars,
                   suggestVars, localVars, fetchVars, queryVars, batchVars, pageVars,
                   exportVars, addVars, installVars>>

\* ------------------------- suggestions and viewed links (clear_cache.js, suggest.js)
\* the links of the entries the arXiv feed can answer with
Links == {"abs/1", "abs/2"}
Feeds ==
    {<<>>} \cup {<<l>> : l \in Links} \cup {f \in [1..2 -> Links] : f[1] # f[2]}
\* the fetch of updateSuggestions fails (the catch logs it) or gives the feed's entries
FeedOutcomes ==
    {[kind |-> "failed"]} \cup {[kind |-> "entries", entries |-> e] : e \in Feeds}

\* displaySuggestions(suggestions): the list is emptied and one link is added for
\* every suggestion
DisplaySuggestions(suggestions) == suggestList' = suggestions

\* updateSuggestions, run by the suggest button, at load and every second: the query
\* is built from the stored papers' keywords and every entry of the answer is displayed
UpdateSuggestions(outcome) ==
    /\ IF outcome.kind = "entries"
       THEN DisplaySuggestions(outcome.entries)
       ELSE UNCHANGED suggestList
    /\ UNCHANGED <<storeVars, popupVars, bgVars, gwVars, cleanVars, histVars, now,
                   docVars, viewedSuggestions, clickHandlers, clicks, cleared, localVars,
                   fetchVars, queryVars, batchVars, pageVars, exportVars, addVars,
                   installVars>>

\* a click on the i-th displayed link: the handler calls storage.get
ClickSuggestion(i) ==
    /\ i \in DOMAIN suggestList
    /\ clicks < MaxClicks
    /\ clicks' = clicks + 1
    /\ clickHandlers' = [clickHandlers EXCEPT ![clicks + 1] =
                            [pc |-> "get", link |-> suggestList[i], seen |-> <<>>]]
    /\ UNCHANGED <<storeVars, popupVars, bgVars, gwVars, cleanVars, histVars, now,
                   docVars, viewedSuggestions, suggestList, cleared, localVars, fetchVars,
                   queryVars, batchVars, pageVars, exportVars, addVars, installVars>>

\* storage.get({ viewedSuggestions: [] }): the stored array, [] when the key is missing
StoredViewed == IF viewedSuggestions = Undef THEN <<>> ELSE viewedSuggestions.items
ViewedGet(h) ==
    /\ clickHandlers[h].pc = "get"
    /\ clickHandlers' = [clickHandlers EXCEPT ![h].pc = "got", ![h].seen = StoredViewed]
    /\ UNCHANGED <<storeVars, popupVars, bgVars, gwVars, cleanVars, histVars, now,
                   docVars, viewedSuggestions, suggestList, clicks, cleared, localVars,
                   fetchVars, queryVars, batchVars, pageVars, exportVars, addVars,
                   installVars>>

\* the callback of the get: viewedSuggestions.includes(s.link) on the array it was given
IncludesNever(viewed, link) == FALSE
Includes(viewed, link) == link \in Range(viewed)
\* the callback sets [...viewedSuggestions, s.link] unless the link was included
ViewedSet(h) ==
    /\ clickHandlers[h].pc = "got"
    /\ viewedSuggestions' =
          IF Includes(clickHandlers[h].seen, clickHandlers[h].link)
          THEN viewedSuggestions
          ELSE Arr(Append(clickHandlers[h].seen, clickHandlers[h].link))
    /\ clickHandlers' = [clickHandlers EXCEPT ![h].pc = "done"]
    /\ UNCHANGED <<storeVars, popupVars, bgVars, gwVars, cleanVars, histVars, now,
                   docVars, suggestList, clicks, cleared, localVars, fetchVars, queryVars,
                   batchVars, pageVars, exportVars, addVars, installVars>>

\* the clearCache button: chrome.storage.local.clear() removes every key
ClearCache ==
    /\ stPapers' = <<>>
    /\ stClusters' = Undef
    /\ stLastUpdated' = 0
    /\ stRelated' = Undef
    /\ stDB' = <<>>
    /\ viewedSuggestions' = Undef
    /\ stInterests' = Undef
    /\ cleared' = TRUE
    /\ UNCHANGED <<popupVars, bgVars, gwVars, cleanVars, histVars, now, docWin, clockMs,
                   docCalls, docSaved, suggestList, clickHandlers, clicks, localVars,
                   fetchers, fetchCount, queryVars, batchVars, pageVars, exportVars,
                   addVars, installVars>>

\* ------------------------------------- the clustering functions run on an array
\* MockLiteratureAPI.performClustering: a Map from main keyword to paper ids, its
\* entries in insertion order; it throws on a paper without a keywords array
MockThrows(papers) == \E i \in DOMAIN papers : ~IsArray(papers[i].keywords)
MockCluster(entry, index) ==
    [id |-> index + 1,
     name |-> CapitalizeFirstLetter(entry.key),
     color |-> GenerateClusterColor(index),
     papers |-> [i \in DOMAIN entry.papers |-> entry.papers[i].id],
     created_date |-> now]
MockPerformClustering(papers) ==
    LET entries == KeywordGroups(<<>>, papers)
    IN [clusters |-> [i \in DOMAIN entries |-> MockCluster(entries[i], i - 1)],
        algorithm |-> "mock_keyword_clustering"]

\* the arrays the functions are run on: papers 1..n, each with one of the keyword lists
LocalInputs ==
    UNION {{[i \in 1..n |-> [id |-> i, keywords |-> kw[i]]] :
               kw \in [1..n -> KeywordLists \cup {Arr(<<Nlp>>)}]} :
           n \in 0..MaxLocalPapers}

\* one call of performLocalClustering(localPapers): what it returns or throws
RunLocalClustering ==
    /\ Len(localRuns) < MaxRuns
    /\ localRuns' = Append(localRuns,
          IF LocalThrows(localPapers)
          THEN [by |-> "local", kind |-> "thrown", error |-> LocalError(localPapers)]
          ELSE [by |-> "local", kind |-> "returned",
                value |-> PerformLocalClustering(localPapers)])
    /\ UNCHANGED <<storeVars, popupVars, bgVars, gwVars, cleanVars, histVars, now,
                   docVars, suggestVars, localPapers, fetchVars, queryVars, batchVars,
                   pageVars, exportVars, addVars, installVars>>

\* gateway bodies whose clusters carry a cluster_id of their own or none: up to
\* MaxGwClusters clusters without members, each with cluster_id cluster_1, cluster_2 or
\* without one
IdResults ==
    UNION {{[kind |-> "object",
             clusters |-> Arr([i \in 1..n |->
                                 [name |-> <<>>, paper_ids |-> Arr(<<>>),
                                  cluster_id |-> ids[i]]]),
             algorithm_used |-> "hierarchical"] :
               ids \in [1..n -> {NoId, 1, 2}]} :
           n \in 0..MaxGwClusters}
\* one call of LiteratureAPI.formatClusteringResponse(response)
RunFormatClustering(response) ==
    /\ Len(localRuns) < MaxRuns
    /\ localRuns' = Append(localRuns,
          [by |-> "format", kind |-> "returned",
           value |-> FormatClusteringResponse(response)])
    /\ UNCHANGED <<storeVars, popupVars, bgVars, gwVars, cleanVars, histVars, now,
                   docVars, suggestVars, localPapers, fetchVars, queryVars, batchVars,
                   pageVars, exportVars, addVars, installVars>>
\* one call of BackgroundService.processClusteringResult(apiResult, localPapers)
RunProcessClustering(apiResult) ==
    /\ Len(localRuns) < MaxRuns
    /\ localRuns' = Append(localRuns,
          [by |-> "process", kind |-> "returned",
           value |-> ProcessClusteringResult(apiResult, localPapers)])
    /\ UNCHANGED <<storeVars, popupVars, bgVars, gwVars, cleanVars, histVars, now,
                   docVars, suggestVars, localPapers, fetchVars, queryVars, batchVars,
                   pageVars, exportVars, addVars, installVars>>

\* one call of MockLiteratureAPI.performClustering(localPapers)
RunMockClustering ==
    /\ Len(localRuns) < MaxRuns
    /\ localRuns' = Append(localRuns,
          IF MockThrows(localPapers)
          THEN [by |-> "mock", kind |-> "thrown",
                error |-> "Cannot read properties of undefined (reading '0')"]
          ELSE [by |-> "mock", kind |-> "returned",
                value |-> MockPerformClustering(localPapers)])
    /\ UNCHANGED <<storeVars, popupVars, bgVars, gwVars, cleanVars, histVars, now,
                   docVars, suggestVars, localPapers, fetchVars, queryVars, batchVars,
                   pageVars, exportVars, addVars, installVars>>

\* ------------------------------------------------ periodicRelatedWorkFetch
\* what fetchRelatedWork resolves with: result.papers of the gateway's answer (undefined
\* when the answer has no papers), or generateMockRelatedWork() when the fetch rejects,
\* the status is not ok or the body is no JSON
MockRelatedWork == Arr(<<"related_1", "related_2">>)
RelatedWorkResults == {Undef, Arr(<<>>), Arr(<<"related_9">>), MockRelatedWork}

\* the fetchRelatedWork alarm: periodicRelatedWorkFetch calls storage.get
FetchAlarm ==
    /\ fetchCount < MaxFetches
    /\ fetchCount' = fetchCount + 1
    /\ fetchers' = [fetchers EXCEPT ![fetchCount + 1] =
                       [pc |-> "get", started |-> now, result |-> Undef, stored |-> 0]]
    /\ UNCHANGED <<storeVars, popupVars, bgVars, gwVars, cleanVars, histVars, now,
                   docVars, suggestVars, localVars, stInterests, queryVars, batchVars,
                   pageVars, exportVars, addVars, installVars>>

\* the continuation of the get: fetchRelatedWork is called when userPreferences is
\* stored and researchInterests is not empty; otherwise the run ends
FetchPrefs(k) ==
    /\ fetchers[k].pc = "get"
    /\ fetchers' = [fetchers EXCEPT ![k].pc =
                       IF stInterests # Undef /\ Len(stInterests.items) > 0
                       THEN "fetch" ELSE "done"]
    /\ UNCHANGED <<storeVars, popupVars, bgVars, gwVars, cleanVars, histVars, now,
                   docVars, suggestVars, localVars, stInterests, fetchCount, queryVars,
                   batchVars, pageVars, exportVars, addVars, installVars>>

\* fetchRelatedWork resolves: recentRelatedWork is set to its papers and the time of
\* the set
FetchStore(k, relatedWork) ==
    /\ fetchers[k].pc = "fetch"
    /\ stRelated' = Cache(relatedWork, now, k)
    /\ fetchers' = [fetchers EXCEPT ![k] =
                       [pc |-> "done", started |-> @.started, result |-> relatedWork,
                        stored |-> now]]
    /\ UNCHANGED <<stPapers, stClusters, stLastUpdated, popupVars, bgVars, gwVars,
                   cleanVars, histVars, now, docVars, suggestVars, localVars,
                   stInterests, fetchCount, queryVars, batchVars, pageVars, exportVars,
                   addVars, installVars>>

\* a day passes while no cleanupOldData is between its get and its continuation
TickIdle == cleanPc = "idle" /\ Tick

\* ------------------------------ the content script's save buttons (part_000)
\* the papers the content script detected on the page, by title
DetectedPapers == [i \in 1..MaxDetected |-> <<"p", Digits[i + 1]>>]
\* the message types handleMessage's switch has a case for
HandledTypes ==
    {"ANALYZE_DOCUMENT", "PERFORM_CLUSTERING", "FETCH_RELATED_WORK", "GENERATE_SUMMARY",
     "EXPORT_DATA", "SYNC_DATA"}
PageSends(type, papers) ==
    /\ pageReq = NoReq
    /\ pageResp = NoResp
    /\ pageReq' = Message(type, Arr(papers))
    /\ UNCHANGED <<storeVars, popupVars, bgVars, gwVars, cleanVars, histVars, now, docVars,
                   suggestVars, localVars, fetchVars, queryVars, batchVars, exportVars,
                   addVars, installVars>>
\* ContentScript.saveSinglePaper(paperIndex): nothing for an index out of range,
\* otherwise SAVE_DETECTED_PAPER is sent with the paper and 'Saving ...' is notified
SaveSinglePaper(paperIndex) ==
    /\ paperIndex >= 0 /\ paperIndex < Len(DetectedPapers)
    /\ PageSends("SAVE_DETECTED_PAPER", <<DetectedPapers[paperIndex + 1]>>)
    /\ pageAsked' = <<DetectedPapers[paperIndex + 1]>>
    /\ UNCHANGED pageResp
\* ContentScript.saveAllPapers(): SAVE_ALL_DETECTED_PAPERS is sent with detectedPapers
SaveAllPapers ==
    /\ PageSends("SAVE_ALL_DETECTED_PAPERS", DetectedPapers)
    /\ pageAsked' = DetectedPapers
    /\ UNCHANGED pageResp
\* ContentScript.quickSavePapers(): QUICK_SAVE_PAPERS is sent with detectedPapers
QuickSavePapers ==
    /\ Len(DetectedPapers) > 0
    /\ PageSends("QUICK_SAVE_PAPERS", DetectedPapers)
    /\ pageAsked' = DetectedPapers
    /\ UNCHANGED pageResp

\* handleMessage on a message whose type has no case: the default branch answers
\* success false, and nothing is stored
HandleUnknownType ==
    /\ pageReq.kind = "message"
    /\ pageReq.type \notin HandledTypes
    /\ pageResp' = Failure("Unknown message type")
    /\ pageReq' = NoReq
    /\ UNCHANGED <<storeVars, popupVars, bgVars, gwVars, cleanVars, histVars, now, docVars,
                   suggestVars, localVars, fetchVars, queryVars, batchVars, pageAsked,
                   exportVars, addVars, installVars>>

\* sendMessage was called without callback: the response is dropped
PageDropsResponse ==
    /\ pageResp # NoResp
    /\ pageResp' = NoResp
    /\ pageAsked' = <<>>
    /\ UNCHANGED <<storeVars, popupVars, bgVars, gwVars, cleanVars, histVars, now, docVars,
                   suggestVars, localVars, fetchVars, queryVars, batchVars, pageReq,
                   exportVars, addVars, installVars>>

\* --------------------------- handleFileUpload runs that overlap in one popup
\* Nothing keeps the change and drop listeners from calling handleFileUpload while an
\* earlier call is at an await, so several runs share this.currentPapers. fileData does
\* not resolve here, so the performClustering that ends a run throws before it sends.
FreeBatch == CHOOSE k \in 1..MaxBatches : batches[k].pc = "none" /\
                 \A j \in 1..MaxBatches : batches[j].pc = "none" => k <= j
\* files are selected or dropped: a run starts and reads its first file
DropFiles(n) ==
    /\ \E k \in 1..MaxBatches : batches[k].pc = "none"
    /\ n >= 1
    /\ uploads + n <= MaxBatchFiles
    /\ uploads' = uploads + n
    /\ batches' = [batches EXCEPT ![FreeBatch] =
                      [pc |-> "read",
                       files |-> [i \in 1..n |->
                                     [name |-> FileNameOf(uploads + i), up |-> uploads + i]],
                       response |-> NoResp]]
    /\ UNCHANGED <<storeVars, popupVars, bgVars, gwVars, cleanVars, added, deleted, lib0,
                   now, docVars, suggestVars, localVars, fetchVars, queryVars, mgrPapers,
                   pageVars, exportVars, addVars, installVars>>

\* readFileAsBase64 resolves and analyzeDocument sends ANALYZE_DOCUMENT; handleMessage
\* runs up to analyzeDocument's await: a request that finds isProcessing set is
\* answered with the thrown error, otherwise the flag is set and the fetch is under way
BatchSend(k) ==
    /\ batches[k].pc = "read"
    /\ IF isProcessing
       THEN /\ batches' = [batches EXCEPT
                              ![k].pc = "answered",
                              ![k].response =
                                  Failure("Another document is currently being processed")]
            /\ UNCHANGED isProcessing
       ELSE /\ batches' = [batches EXCEPT ![k].pc = "fetch"]
            /\ isProcessing' = TRUE
    /\ UNCHANGED <<storeVars, popupVars, bg, req, nextId, gwVars, cleanVars, histVars, now,
                   docVars, suggestVars, localVars, fetchVars, queryVars, mgrPapers,
                   pageVars, exportVars, addVars, installVars>>

\* the fetch of the analysis ends and handleMessage answers
BatchAnalyzed(k, gatewayOk) ==
    /\ batches[k].pc = "fetch"
    /\ batches' = [batches EXCEPT ![k].pc = "answered",
                                  ![k].response = Success(AnalyzeResult(gatewayOk))]
    /\ nextId' = IF gatewayOk THEN nextId + 1 ELSE nextId
    /\ isProcessing' = FALSE
    /\ UNCHANGED <<storeVars, popupVars, bg, req, gwVars, cleanVars, histVars, now,
                   docVars, suggestVars, localVars, fetchVars, queryVars, mgrPapers,
                   pageVars, exportVars, addVars, installVars>>

\* analyzeDocument returns and storePaper pushes the paper and writes papers and
\* lastUpdated; the loop goes on to the run's next file
BatchStore(k) ==
    /\ batches[k].pc = "answered"
    /\ LET paper == PaperData(AnalysisResults(batches[k].response), Head(batches[k].files))
           papers == Append(mgrPapers, paper)
       IN /\ mgrPapers' = papers
          /\ stPapers' = papers
          /\ stLastUpdated' = now
          /\ added' = Append(added, paper)
    /\ batches' = [batches EXCEPT
                      ![k].pc = IF Tail(batches[k].files) = <<>> THEN "done" ELSE "read",
                      ![k].files = Tail(batches[k].files),
                      ![k].response = NoResp]
    /\ UNCHANGED <<stClusters, stRelated, popupVars, bgVars, gwVars, cleanVars, uploads,
                   deleted, lib0, now, docVars, suggestVars, localVars, fetchVars,
                   queryVars, pageVars, exportVars, addVars, installVars>>

\* ------------------------------------------- performSearch's query filter
\* String.prototype.toLowerCase on a string of letters and other characters
ToLowerCaseChar(ch) ==
    IF \E i \in DOMAIN UpperCase : UpperCase[i] = ch
    THEN LowerCase[CHOOSE i \in DOMAIN UpperCase : UpperCase[i] = ch]
    ELSE ch
ToLowerCase(string) == [i \in DOMAIN string |-> ToLowerCaseChar(string[i])]
\* String.prototype.includes
StringIncludes(string, query) ==
    \E i \in 0..(Len(string) - Len(query)) : SubSeq(string, i + 1, i + Len(query)) = query
\* String.prototype.trim
RECURSIVE Trim(_)
Trim(string) ==
    IF string = <<>> THEN <<>>
    ELSE IF Head(string) = " " THEN Trim(Tail(string))
    ELSE IF string[Len(string)] = " " THEN Trim(SubSeq(string, 1, Len(string) - 1))
    ELSE string

\* the filter callback of performSearch on one paper: the four tests joined by ||, left
\* to right; a test is reached only when the ones before it are false, and it throws a
\* TypeError when its field is undefined
FieldTests(paper, query) ==
    << IF paper.title = Undef THEN "throws"
       ELSE IF StringIncludes(ToLowerCase(paper.title.chars), query)
            THEN "true" ELSE "false",
       IF paper.authors = Undef THEN "throws"
       ELSE IF \E author \in Range(paper.authors.items) :
                   StringIncludes(ToLowerCase(author), query) THEN "true" ELSE "false",
       IF paper.keywords = Undef THEN "throws"
       ELSE IF \E keyword \in Range(paper.keywords.items) :
                   StringIncludes(ToLowerCase(keyword), query) THEN "true" ELSE "false",
       IF paper.abstract = Undef THEN "throws"
       ELSE IF StringIncludes(ToLowerCase(paper.abstract.chars), query)
            THEN "true" ELSE "false" >>
RECURSIVE OrTests(_)
OrTests(tests) ==
    IF tests = <<>> THEN "false"
    ELSE IF Head(tests) = "false" THEN OrTests(Tail(tests))
    ELSE Head(tests)
QueryFilter(paper, query) == OrTests(FieldTests(paper, query))

\* performSearch with currentFilter 'all' on currentPapers = papers: every paper when
\* the trimmed searchQuery is empty; otherwise the papers the filter keeps, or the
\* TypeError of the first paper it throws on
SearchResults(papers, query) ==
    IF Trim(query) = <<>> THEN Arr(papers)
    ELSE IF \E i \in DOMAIN papers : QueryFilter(papers[i], ToLowerCase(query)) = "throws"
    THEN TypeError
    ELSE Arr(SelectSeq(papers, LAMBDA p : QueryFilter(p, ToLowerCase(query)) = "true"))

\* the strings of the papers searched, and the queries typed
Str(chars) == [kind |-> "string", chars |-> chars]
Titles == {Str(<<"M", "l">>), Str(<<"n", "l", "p">>)}
PaperFields ==
    [title : Titles \cup {Undef},
     authors : {Undef, Arr(<<>>), Arr(<<<<"N", "g">>>>)},
     keywords : {Undef, Arr(<<<<"m", "l">>>>)},
     abstract : {Undef, Str(<<"l", "n">>)}]
\* a paper as the documented format has it, and the record storePaper stores, which has
\* none of the four fields
SearchInputs ==
    UNION {[1..n -> PaperFields] : n \in 0..MaxSearchPapers}
Queries == {<<" ">>, <<"m">>, <<"M", "L">>, <<"n", "g">>, <<"l", "n">>, <<"l", " ">>}

\* the input event of the search box: searchQuery is set and performSearch runs
TypeQuery(query) ==
    /\ searchQuery # query
    /\ searchQuery' = query
    /\ searchShown' = SearchResults(searchPapers, query)
    /\ UNCHANGED <<storeVars, popupVars, bgVars, gwVars, cleanVars, histVars, now,
                   docVars, suggestVars, localVars, fetchVars, searchPapers, batchVars,
                   pageVars, exportVars, addVars, installVars>>

\* ------------------------------------- handleMessage FETCH_RELATED_WORK
\* what the gateway call of fetchRelatedWork can come to: fetch rejects, the status is
\* not ok, the body is no JSON, the body is the JSON null, or the body parses to an
\* object whose papers is missing or is some array
RelatedOutcomes ==
    {[kind |-> "unreachable"], [kind |-> "status"], [kind |-> "text"], [kind |-> "null"]}
    \cup {[kind |-> "json", result |-> [kind |-> "object", papers |-> p]] :
             p \in RelatedWorkResults}
\* BackgroundService.fetchRelatedWork: result.papers as it is, or from the catch
\* generateMockRelatedWork()
FetchRelatedWork(outcome) ==
    IF outcome.kind = "json" THEN outcome.result.papers ELSE MockRelatedWork

\* chrome.runtime.sendMessage({ type: 'FETCH_RELATED_WORK', data: interests })
CallerSendsRelated(c, interests) ==
    /\ req[c] = NoReq
    /\ resp[c] = NoResp
    /\ req' = [req EXCEPT ![c] = Message("FETCH_RELATED_WORK", interests)]
    /\ UNCHANGED <<storeVars, popupVars, bg, isProcessing, nextId, gwVars, cleanVars,
                   histVars, now, docVars, suggestVars, localVars, fetchVars, queryVars,
                   batchVars, pageVars, exportVars, addVars, installVars>>

\* handleMessage FETCH_RELATED_WORK up to fetchRelatedWork's fetch
RelatedWorkBegin(c) ==
    /\ Pending(c, "FETCH_RELATED_WORK")
    /\ bg[c] = "idle"
    /\ bg' = [bg EXCEPT ![c] = "fetch"]
    /\ UNCHANGED <<storeVars, popupVars, req, isProcessing, nextId, gwVars, cleanVars,
                   histVars, now, docVars, suggestVars, localVars, fetchVars, queryVars,
                   batchVars, pageVars, exportVars, addVars, installVars>>

\* handleMessage FETCH_RELATED_WORK from the fetch on
RelatedWorkEnd(c, outcome) ==
    /\ Pending(c, "FETCH_RELATED_WORK")
    /\ bg[c] = "fetch"
    /\ resp' = [resp EXCEPT ![c] = Success(FetchRelatedWork(outcome))]
    /\ served' = [served EXCEPT ![c] = [kind |-> "related", outcome |-> outcome]]
    /\ bg' = [bg EXCEPT ![c] = "idle"]
    /\ req' = [req EXCEPT ![c] = NoReq]
    /\ UNCHANGED <<storeVars, currentPapers, currentClusters, pc, files, shown,
                   fileDataBound, currentFilter, isProcessing, nextId, cleanVars,
                   histVars, now, apiCall, docVars, suggestVars, localVars, fetchVars,
                   queryVars, batchVars, pageVars, exportVars, addVars, installVars>>

\* ------------------------------------ the records storePaper and saveDoc store
\* the optional fields of a paper
OptionalFields == {"title", "authors", "abstract", "keywords", "summary", "findings"}
\* an object a caller may hand over: its id (NoId when it has none) and the optional
\* fields it has
Record(id, keys) == [kind |-> "object", id |-> id, keys |-> keys]
AddInputs == {Record(id, keys) : id \in {NoId, 99}, keys \in SUBSET OptionalFields}
                \cup {Undef}
\* the own keys of storePaper's paperData: those of analysisResults (none when it is
\* undefined) and the four storePaper sets
PaperDataKeys(analysisResults) ==
    (IF analysisResults = Undef THEN {} ELSE analysisResults.keys)
        \cup {"local_file", "file_size", "file_type", "processed_date"}
\* storePaper(analysisResults, file): paperData is pushed and stored as it was built
StorePaperRecord ==
    /\ addStored = Undef
    /\ addStored' = Record(IF addRecord = Undef THEN NoId ELSE addRecord.id,
                           PaperDataKeys(addRecord))
    /\ UNCHANGED <<storeVars, popupVars, bgVars, gwVars, cleanVars, histVars, now, docVars,
                   suggestVars, localVars, fetchVars, queryVars, batchVars, pageVars,
                   exportVars, addRecord, installVars>>
\* saveDoc(doc): doc.id is set to Date.now() as text whatever it was, and doc is pushed
\* and stored with the keys it has
SaveDocRecord ==
    /\ addStored = Undef
    /\ addRecord # Undef
    /\ clockMs > 0
    /\ addStored' = Record(clockMs, addRecord.keys)
    /\ UNCHANGED <<storeVars, popupVars, bgVars, gwVars, cleanVars, histVars, now, docVars,
                   suggestVars, localVars, fetchVars, queryVars, batchVars, pageVars,
                   exportVars, addRecord, installVars>>

\* ------------------------------------------------- handleMessage EXPORT_DATA
\* getFullYear of a day
YearOf(day) == day \div OneYear
\* an error thrown with that message
Thrown(message) == [kind |-> "Error", message |-> message]
\* convertToCSV: the empty text when there are no papers, otherwise the header line and
\* one line per paper; a field the paper lacks gives the empty text
CsvRow(paper) ==
    [title |-> "", authors |-> "", keywords |-> "", processed_date |-> paper.date,
     confidence_score |-> ""]
\* a convertToCSV that writes the header and leaves the papers out
ConvertToCSVHeaderOnly(papers) ==
    [kind |-> "text",
     header |-> <<"Title", "Authors", "Keywords", "Upload Date", "Confidence Score">>,
     lines |-> <<>>]
ConvertToCSV(papers) ==
    IF Len(papers) = 0
    THEN [kind |-> "text", header |-> <<>>, lines |-> <<>>]
    ELSE [kind |-> "text",
          header |-> <<"Title", "Authors", "Keywords", "Upload Date", "Confidence Score">>,
          lines |-> [i \in 1..Len(papers) |-> CsvRow(papers[i])]]
\* convertToBibTeX: one @article entry per paper; a paper without title is "Untitled" and
\* one without authors is by "Unknown"; the key is the title's letters and the year
BibTeXEntry(paper) ==
    [key |-> <<"Untitled", YearOf(paper.date)>>, title |-> "Untitled",
     author |-> "Unknown", year |-> YearOf(paper.date),
     note |-> "Imported from Literature Manager"]
ConvertToBibTeX(papers) ==
    [kind |-> "text", header |-> <<>>,
     lines |-> [i \in 1..Len(papers) |-> BibTeXEntry(papers[i])]]
\* data.clusters?.length || 0: only an array has a length
LengthOr0(value) == IF value.kind = "array" THEN Len(value.items) ELSE 0
\* exportData's exportData object, which JSON.stringify writes out
ExportDocument(data) ==
    [kind |-> "json",
     metadata |-> [export_date |-> now, version |-> "1.0.0",
                   total_papers |-> Len(data.papers),
                   total_clusters |-> LengthOr0(data.clusters)],
     papers |-> data.papers,
     clusters |-> IF data.clusters = Undef THEN Arr(<<>>) ELSE data.clusters]
FileName(prefix, extension) == <<prefix, now, extension>>
\* exportData: what it returns or throws, data being what storage.get resolved with
ExportData(exportOptions, data) ==
    IF exportOptions = Undef
    THEN Thrown("Cannot read properties of undefined (reading 'format')")
    ELSE CASE exportOptions.format = "json" ->
                [kind |-> "object", data |-> ExportDocument(data),
                 filename |-> FileName("literature_export_", ".json"),
                 contentType |-> "application/json"]
           [] exportOptions.format = "csv" ->
                [kind |-> "object", data |-> ConvertToCSV(data.papers),
                 filename |-> FileName("papers_export_", ".csv"),
                 contentType |-> "text/csv"]
           [] exportOptions.format = "bibtex" ->
                [kind |-> "object", data |-> ConvertToBibTeX(data.papers),
                 filename |-> FileName("bibliography_", ".bib"),
                 contentType |-> "text/plain"]
           [] OTHER -> Thrown("Unsupported export format")

\* the export options a caller may send: the three formats, two that are not
\* supported, and a message without data
ExportFormats == {"json", "csv", "bibtex", "xml", "JSON"}
ExportOptions == {[kind |-> "object", format |-> f] : f \in ExportFormats} \cup {Undef}

\* a caller sends EXPORT_DATA as the message contract has it
CallerSendsExport(c, exportOptions) ==
    /\ req[c] = NoReq
    /\ resp[c] = NoResp
    /\ req' = [req EXCEPT ![c] = Message("EXPORT_DATA", exportOptions)]
    /\ UNCHANGED <<storeVars, popupVars, bg, isProcessing, nextId, gwVars, cleanVars,
                   histVars, now, docVars, suggestVars, localVars, fetchVars, queryVars,
                   batchVars, pageVars, exportVars, addVars, installVars>>

\* handleMessage EXPORT_DATA up to the end of exportData's storage.get
ExportBegin(c) ==
    /\ Pending(c, "EXPORT_DATA")
    /\ bg[c] = "idle"
    /\ bg' = [bg EXCEPT ![c] = "get"]
    /\ exportRead' = [exportRead EXCEPT ![c] =
                         [kind |-> "object", papers |-> stPapers, clusters |-> stClusters]]
    /\ UNCHANGED <<storeVars, popupVars, req, isProcessing, nextId, gwVars, cleanVars,
                   histVars, now, docVars, suggestVars, localVars, fetchVars, queryVars,
                   batchVars, pageVars, addVars, installVars>>

\* handleMessage EXPORT_DATA from there on: exportData's result is answered with
\* success, and what it throws with success false and the error's message
ExportEnd(c) ==
    /\ Pending(c, "EXPORT_DATA")
    /\ bg[c] = "get"
    /\ LET exportResult == ExportData(req[c].data, exportRead[c])
       IN resp' = [resp EXCEPT ![c] = IF exportResult.kind = "Error"
                                      THEN Failure(exportResult.message)
                                      ELSE Success(exportResult)]
    /\ served' = [served EXCEPT ![c] =
                     [kind |-> "export", options |-> req[c].data, read |-> exportRead[c]]]
    /\ bg' = [bg EXCEPT ![c] = "idle"]
    /\ req' = [req EXCEPT ![c] = NoReq]
    /\ exportRead' = [exportRead EXCEPT ![c] = Undef]
    /\ UNCHANGED <<storeVars, currentPapers, currentClusters, pc, files, shown,
                   fileDataBound, currentFilter, isProcessing, nextId, cleanVars,
                   histVars, now, apiCall, docVars, suggestVars, localVars, fetchVars,
                   queryVars, batchVars, pageVars, addVars, installVars>>

\* --------------------------------------------------- handleMessage SYNC_DATA
\* a caller sends SYNC_DATA, which carries no data
CallerSendsSync(c) ==
    /\ req[c] = NoReq
    /\ resp[c] = NoResp
    /\ req' = [req EXCEPT ![c] = Message("SYNC_DATA", Undef)]
    /\ UNCHANGED <<storeVars, popupVars, bg, isProcessing, nextId, gwVars, cleanVars,
                   histVars, now, docVars, suggestVars, localVars, fetchVars, queryVars,
                   batchVars, pageVars, exportVars, addVars, installVars>>
\* handleMessage SYNC_DATA: syncData returns its 'not yet implemented' record, which is
\* answered with success
SyncData(c) ==
    /\ Pending(c, "SYNC_DATA")
    /\ bg[c] = "idle"
    /\ resp' = [resp EXCEPT ![c] =
                   Success([kind |-> "object", success |-> TRUE,
                            message |-> "Data synchronization not yet implemented",
                            timestamp |-> now])]
    /\ req' = [req EXCEPT ![c] = NoReq]
    /\ UNCHANGED <<storeVars, currentPapers, currentClusters, pc, files, shown,
                   fileDataBound, currentFilter, bg, isProcessing, nextId, gwVars,
                   cleanVars, histVars, now, docVars, suggestVars, localVars, fetchVars,
                   queryVars, batchVars, pageVars, exportVars, addVars, installVars>>

\* ------------------------------- handleInstallation (chrome.runtime.onInstalled)
\* the reasons of an onInstalled event: 'install' comes once, to an extension that was
\* not installed (its storage is empty); the other reasons come to an installed one
Reasons == {"install", "update", "chrome_update"}
\* falsy, of the values a stored key is modelled to have: an absent key reads undefined
Falsy(v) == v = Undef
\* the other keys of the store and the rest of the program, which no step of
\* handleInstallation works on
InstallFrame ==
    UNCHANGED <<popupVars, bgVars, gwVars, cleanVars, histVars, now, docVars, suggestVars,
                localVars, fetchers, fetchCount, queryVars, batchVars, pageVars,
                exportVars, addVars, stRelated>>

\* handleInstallation(details) up to its await: 'install' calls initializeStorage,
\* 'update' calls migrateData, any other reason does nothing
HandleInstallation(reason) ==
    /\ instPc = "idle"
    /\ instEvents < MaxInstallEvents
    /\ (reason = "install") = ~installed
    /\ installed' = TRUE
    /\ instEvents' = instEvents + 1
    /\ instPc' = CASE reason = "install" -> "initialize"
                   [] reason = "update" -> "get"
                   [] OTHER -> "idle"
    /\ InstallFrame
    /\ UNCHANGED <<stPapers, stClusters, stLastUpdated, stInterests, stSettings,
                   stVersion, instRead>>

\* initializeStorage: one storage.set of defaultData, every key of it; when the set
\* rejects nothing is written
InitializeStorage(setOk) ==
    /\ instPc = "initialize"
    /\ instPc' = "idle"
    /\ IF setOk
       THEN /\ stPapers' = <<>>
            /\ stClusters' = Arr(<<>>)
            /\ stSettings' = DefaultSettings
            /\ stInterests' = Arr(<<>>)
            /\ stLastUpdated' = now
            /\ stVersion' = Version
       ELSE UNCHANGED <<stPapers, stClusters, stSettings, stInterests, stLastUpdated,
                        stVersion>>
    /\ InstallFrame
    /\ UNCHANGED <<installed, instRead, instEvents>>

\* a migrateData that sets both keys whatever it read
MigrateDataGetAlways(getOk) ==
    /\ instPc = "get"
    /\ instRead' = IF getOk THEN [settings |-> TRUE, userPreferences |-> TRUE]
                   ELSE NoUpdates
    /\ instPc' = IF getOk THEN "set" ELSE "idle"
    /\ InstallFrame
    /\ UNCHANGED <<stPapers, stClusters, stLastUpdated, stInterests, stSettings,
                   stVersion, installed, instEvents>>

\* migrateData up to its storage.set: storage.get(null) resolves, updates collects the
\* defaults of the keys that read falsy; with no update, or when the get rejects (the
\* catch logs it), migrateData is through
MigrateDataGet(getOk) ==
    /\ instPc = "get"
    /\ LET updates == IF getOk
                      THEN [settings |-> Falsy(stSettings),
                            userPreferences |-> Falsy(stInterests)]
                      ELSE NoUpdates
       IN  /\ instRead' = updates
           /\ instPc' = IF updates = NoUpdates THEN "idle" ELSE "set"
    /\ InstallFrame
    /\ UNCHANGED <<stPapers, stClusters, stLastUpdated, stInterests, stSettings,
                   stVersion, installed, instEvents>>

\* migrateData's storage.set(updates): the keys of updates are written, no other key
MigrateDataSet(setOk) ==
    /\ instPc = "set"
    /\ instPc' = "idle"
    /\ stSettings' = IF setOk /\ instRead.settings THEN DefaultSettings ELSE stSettings
    /\ stInterests' = IF setOk /\ instRead.userPreferences THEN Arr(<<>>)
                      ELSE stInterests
    /\ InstallFrame
    /\ UNCHANGED <<stPapers, stClusters, stLastUpdated, stVersion, installed,
                   instRead, instEvents>>

\* ------------------------------------------------------------ the system
PopupStep(c) ==
    \/ LoadData(c)
    \/ \E n \in 1..MaxUploads : HandleFileUpload(c, n)
    \/ StorePaper(c)
    \/ AfterStore(c)
    \/ Recluster(c)
    \/ InstallClusters(c)
    \/ \E id \in DeletableIds(c), confirmed \in BOOLEAN : DeletePaper(c, id, confirmed)
    \/ ClosePopup(c)

SearchStep(c) ==
    \/ PerformSearch(c)
    \/ \E f \in Filters(c) : SetSearchFilter(c, f)

BackgroundStep(c) ==
    \/ AnalyzeBegin(c)
    \/ \E ok \in BOOLEAN : AnalyzeEnd(c, ok)
    \/ ClusteringBegin(c)

CleanupStep == CleanupRead \/ CleanupCache \/ CleanupAfterRemove

\* one popup window and the background service
Next == PopupStep("popupA") \/ BackgroundStep("popupA")

Spec == Init /\ [][Next]_vars

\* the same with the search popup in use
NextSearch == Next \/ SearchStep("popupA")

SpecSearch == Init /\ [][NextSearch]_vars

\* two popup windows open at once, uploading and deleting, and the background service
\* analysing for both; fileData does not resolve, so no clustering request is sent
SharedStep(c) ==
    \/ LoadData(c)
    \/ \E n \in 1..MaxUploads : HandleFileUpload(c, n)
    \/ StorePaper(c)
    \/ AfterStore(c)
    \/ \E id \in DeletableIds(c) : DeletePaper(c, id, TRUE)
    \/ AnalyzeBegin(c)
    \/ \E ok \in BOOLEAN : AnalyzeEnd(c, ok)

NextPopups == \E c \in Ctx : SharedStep(c)

InitPopups == Init /\ ~fileDataBound

SpecPopups == InitPopups /\ [][NextPopups]_vars

\* one popup window uploading into a library over the high-water mark while the
\* weekly cleanupData alarm fires
UploadStep(c) ==
    \/ LoadData(c)
    \/ \E n \in 1..MaxUploads : HandleFileUpload(c, n)
    \/ StorePaper(c)
    \/ AfterStore(c)
    \/ InstallClusters(c)
    \/ BackgroundStep(c)

NextCleanup == UploadStep("popupA") \/ CleanupStep \/ Tick

SpecCleanup == InitBig /\ [][NextCleanup]_vars

\* the background service answering PERFORM_CLUSTERING messages that follow the
\* message contract, and LiteratureAPI.performClustering called with the same papers
GatewayStep(c) ==
    \/ \E papers \in GwRequests : CallerSendsClustering(c, papers)
    \/ ClusteringBegin(c)
    \/ \E outcome \in GatewayOutcomes : ClusteringEnd(c, outcome)
    \/ CallerTakesResponse(c)
    \/ \E papers \in GwRequests : ApiClusteringBegin(papers)
    \/ \E outcome \in GatewayOutcomes : ApiClusteringEnd(outcome)
    \/ ApiCallerDone

NextGateway == GatewayStep("popupA")

\* the library plays no part here: it starts as initializeStorage leaves it
InitGateway == Init /\ stPapers = <<>> /\ ~fileDataBound

SpecGateway == InitGateway /\ [][NextGateway]_vars

\* two windows of the lightweight popup saving documents
DocStep(w) == ClickAnalyze(w) \/ SaveDocLoad(w) \/ SaveDocWrite(w)

NextDoc == (\E w \in Ctx : DocStep(w)) \/ ClockTick

InitDoc == InitGateway

SpecDoc == InitDoc /\ [][NextDoc]_vars

\* one window of the lightweight popup: its saves follow one another, the analyze
\* button being disabled while a save is under way
NextLight == DocStep("popupA") \/ ClockTick

SpecLight == InitDoc /\ [][NextLight]_vars

\* performLocalClustering and the mock gateway's performClustering run on one array of
\* papers, at the same or at different times
NextLocal == RunLocalClustering \/ RunMockClustering \/ Tick

InitLocal ==
    /\ InitFrom(SmallStores)
    /\ stPapers = <<>>
    /\ ~fileDataBound
    /\ localPapers \in LocalInputs
    /\ stInterests = Arr(<<>>)
    /\ InstalledStore
    /\ searchPapers = <<>>
    /\ mgrPapers = <<>>
    /\ addRecord = Undef

SpecLocal == InitLocal /\ [][NextLocal]_vars

\* the functions that give clusters their ids, run on an array of papers and on gateway
\* bodies
NextIds ==
    \/ RunLocalClustering
    \/ \E response \in IdResults : RunFormatClustering(response)
    \/ \E apiResult \in IdResults : RunProcessClustering(apiResult)

SpecIds == InitLocal /\ [][NextIds]_vars

\* the two periodic tasks of the background service on a small library whose user has
\* research interests stored, with the related-work cache an earlier session left
CacheStores ==
    {[papers |-> <<>>, clusters |-> Arr(<<>>), related |-> r] :
        r \in {Undef} \cup {Cache(Arr(<<>>), NowStart - age, 0) :
                               age \in {1, RetentionDays, RetentionDays + 1}}}
InitCache ==
    /\ InitFrom(CacheStores)
    /\ ~fileDataBound
    /\ localPapers = <<>>
    /\ stInterests \in {Arr(<<>>), Arr(<<Ml>>)}
    /\ InstalledStore
    /\ searchPapers = <<>>
    /\ mgrPapers = <<>>
    /\ addRecord = Undef

NextCache ==
    \/ FetchAlarm
    \/ \E k \in 1..MaxFetches : FetchPrefs(k)
    \/ \E k \in 1..MaxFetches, relatedWork \in RelatedWorkResults :
          FetchStore(k, relatedWork)
    \/ CleanupStep
    \/ TickIdle

SpecCache == InitCache /\ [][NextCache]_vars

\* the page of clear_cache.js: the suggestion list, its links' click handlers and the
\* clearCache button
NextSuggest ==
    \/ \E outcome \in FeedOutcomes : UpdateSuggestions(outcome)
    \/ \E i \in 1..2 : ClickSuggestion(i)
    \/ \E h \in 1..MaxClicks : ViewedGet(h) \/ ViewedSet(h)
    \/ ClearCache

SpecSuggest == InitDoc /\ [][NextSuggest]_vars

\* the background service answering PERFORM_CLUSTERING and FETCH_RELATED_WORK messages
\* whose gateway call fails or succeeds
FallbackStep(c) ==
    \/ \E papers \in GwRequests : CallerSendsClustering(c, papers)
    \/ ClusteringBegin(c)
    \/ \E outcome \in GatewayOutcomes : ClusteringEnd(c, outcome)
    \/ \E interests \in {Arr(<<>>), Arr(<<Nlp>>)} : CallerSendsRelated(c, interests)
    \/ RelatedWorkBegin(c)
    \/ \E outcome \in RelatedOutcomes : RelatedWorkEnd(c, outcome)
    \/ CallerTakesResponse(c)

NextFallback == FallbackStep("popupA")

SpecFallback == InitGateway /\ [][NextFallback]_vars

\* a caller of ANALYZE_DOCUMENT as the message contract has it
CallerSendsAnalyze(c) ==
    /\ req[c] = NoReq
    /\ resp[c] = NoResp
    /\ uploads < MaxUploads
    /\ uploads' = uploads + 1
    /\ SendAnalyze(c)
    /\ UNCHANGED <<storeVars, popupVars, bg, isProcessing, nextId, gwVars, cleanVars,
                   added, deleted, lib0, now, docVars, suggestVars, localVars, fetchVars,
                   queryVars, batchVars, pageVars, exportVars, addVars, installVars>>

\* the gateway never answers the fetch of the handler serving popup c: fetch is called
\* without a signal, so its promise stays pending and the handler stays at its await
GatewayNeverAnswers(c) ==
    /\ bg[c] = "fetch"
    /\ bg' = [bg EXCEPT ![c] = "hung"]
    /\ UNCHANGED <<storeVars, popupVars, req, isProcessing, nextId, gwVars, cleanVars,
                   histVars, now, docVars, suggestVars, localVars, fetchVars, queryVars,
                   batchVars, pageVars, exportVars, addVars, installVars>>

\* the three handlers that call a gateway, each step taken when it can be, and a
\* gateway that answers or never does
NextTimeout ==
    \/ FallbackStep("popupA")
    \/ CallerSendsAnalyze("popupA")
    \/ AnalyzeBegin("popupA")
    \/ \E gatewayOk \in BOOLEAN : AnalyzeEnd("popupA", gatewayOk)
    \/ GatewayNeverAnswers("popupA")

\* the steps of the background service and of the gateway: the event loop runs every
\* continuation that is ready, while no caller has to send anything
HandlerStep(c) ==
    \/ ClusteringBegin(c)
    \/ \E outcome \in GatewayOutcomes : ClusteringEnd(c, outcome)
    \/ RelatedWorkBegin(c)
    \/ \E outcome \in RelatedOutcomes : RelatedWorkEnd(c, outcome)
    \/ AnalyzeBegin(c)
    \/ \E gatewayOk \in BOOLEAN : AnalyzeEnd(c, gatewayOk)
    \/ GatewayNeverAnswers(c)

SpecTimeout == InitGateway /\ [][NextTimeout]_vars /\ WF_vars(HandlerStep("popupA"))

\* two callers of ANALYZE_DOCUMENT and the background service, with a gateway that
\* answers, fails or never answers, on any of the libraries a popup can find
BusyStep(c) ==
    \/ CallerSendsAnalyze(c)
    \/ AnalyzeBegin(c)
    \/ \E gatewayOk \in BOOLEAN : AnalyzeEnd(c, gatewayOk)
    \/ GatewayNeverAnswers(c)
    \/ CallerTakesResponse(c)

NextBusy == \E c \in Ctx : BusyStep(c)

SpecBusy == Init /\ [][NextBusy]_vars

\* the same with the event loop running every continuation of the service that is ready
ServiceStep(c) ==
    \/ AnalyzeBegin(c)
    \/ \E gatewayOk \in BOOLEAN : AnalyzeEnd(c, gatewayOk)
    \/ GatewayNeverAnswers(c)

SpecRelease == Init /\ [][NextBusy]_vars /\ \A c \in Ctx : WF_vars(ServiceStep(c))

\* performSearch's query filter on a library of up to MaxSearchPapers papers
NextQuery == \E query \in Queries : TypeQuery(query)

InitQuery ==
    /\ InitFrom(SmallStores)
    /\ stPapers = <<>>
    /\ ~fileDataBound
    /\ localPapers = <<>>
    /\ stInterests = Arr(<<>>)
    /\ InstalledStore
    /\ searchPapers \in SearchInputs
    /\ mgrPapers = <<>>
    /\ addRecord = Undef

SpecQuery == InitQuery /\ [][NextQuery]_vars

\* one popup window in which files are selected or dropped while earlier ones are
\* still being processed
NextBatch ==
    \/ \E n \in 1..MaxBatchFiles : DropFiles(n)
    \/ \E k \in 1..MaxBatches : BatchSend(k)
    \/ \E k \in 1..MaxBatches, gatewayOk \in BOOLEAN : BatchAnalyzed(k, gatewayOk)
    \/ \E k \in 1..MaxBatches : BatchStore(k)

\* loadData has run: currentPapers holds the stored papers
InitBatch ==
    /\ InitFrom(SmallStores)
    /\ ~fileDataBound
    /\ localPapers = <<>>
    /\ stInterests = Arr(<<>>)
    /\ InstalledStore
    /\ searchPapers = <<>>
    /\ mgrPapers = stPapers
    /\ addRecord = Undef

SpecBatch == InitBatch /\ [][NextBatch]_vars

\* one popup window and the background service, with storage writes that can fail
NextQuota == Next \/ StorePaperFails("popupA") \/ UploadFailed("popupA")

SpecQuota == Init /\ [][NextQuota]_vars

\* one popup window, the background service, and the content script of a page on which
\* papers were detected
PageStep ==
    \/ \E paperIndex \in 0..MaxDetected : SaveSinglePaper(paperIndex)
    \/ SaveAllPapers
    \/ QuickSavePapers
    \/ HandleUnknownType
    \/ PageDropsResponse

NextPage == UploadStep("popupA") \/ PageStep

SpecPage == Init /\ [][NextPage]_vars

\* one popup window uploading while another caller has the library exported
ExportStep(c) ==
    \/ \E exportOptions \in ExportOptions : CallerSendsExport(c, exportOptions)
    \/ ExportBegin(c)
    \/ ExportEnd(c)
    \/ CallerTakesResponse(c)

NextExport == UploadStep("popupA") \/ ExportStep("popupB") \/ Tick

SpecExport == Init /\ [][NextExport]_vars

\* storePaper and saveDoc called with records that have any of the optional fields
InitAdd ==
    /\ InitFrom(SmallStores)
    /\ stPapers = <<>>
    /\ ~fileDataBound
    /\ localPapers = <<>>
    /\ stInterests = Arr(<<>>)
    /\ InstalledStore
    /\ searchPapers = <<>>
    /\ mgrPapers = <<>>
    /\ addRecord \in AddInputs

\* the onInstalled events of an extension that is installed now or was installed by an
\* earlier version, whose store may lack settings, userPreferences and version, next to
\* a popup that uploads
EarlierStores ==
    [settings : {Undef, DefaultSettings, EarlierSettings},
     interests : {Undef, Arr(<<>>), Arr(<<Ml>>)},
     version : {Undef, Version}]
\* the store of an extension that was never installed: no key
FreshStore == [papers |-> <<>>, clusters |-> Undef, related |-> Undef]
InitInstall ==
    /\ installed \in BOOLEAN
    /\ InitFrom(IF installed THEN SmallStores ELSE {FreshStore})
    /\ ~fileDataBound
    /\ localPapers = <<>>
    /\ searchPapers = <<>>
    /\ mgrPapers = <<>>
    /\ addRecord = Undef
    /\ \/ /\ ~installed
          /\ stSettings = Undef
          /\ stInterests = Undef
          /\ stVersion = Undef
       \/ /\ installed
          /\ \E s \in EarlierStores :
                /\ stSettings = s.settings
                /\ stInterests = s.interests
                /\ stVersion = s.version

InstallStep ==
    \/ \E reason \in Reasons : HandleInstallation(reason)
    \/ \E setOk \in BOOLEAN : InitializeStorage(setOk)
    \/ \E getOk \in BOOLEAN : MigrateDataGet(getOk)
    \/ \E setOk \in BOOLEAN : MigrateDataSet(setOk)

NextInstall == InstallStep \/ (installed /\ UploadStep("popupA"))

SpecInstall == InitInstall /\ [][NextInstall]_vars

NextAdd == StorePaperRecord \/ SaveDocRecord \/ ClockTick

SpecAdd == InitAdd /\ [][NextAdd]_vars

\* one caller sending every type of message handleMessage has a case for, the content
\* script sending the types it has none for, and the background service with a gateway
\* that answers or never does
NextAnswer ==
    \/ NextTimeout
    \/ ExportStep("popupA")
    \/ CallerSendsSync("popupA")
    \/ SyncData("popupA")
    \/ PageStep

\* the steps of the background service on the message of caller c
AnswerStep(c) ==
    \/ HandlerStep(c)
    \/ ExportBegin(c)
    \/ ExportEnd(c)
    \/ SyncData(c)

SpecAnswer ==
    /\ InitGateway
    /\ [][NextAnswer]_vars
    /\ WF_vars(AnswerStep("popupA"))
    /\ WF_vars(HandleUnknownType)

\* ==================================================================== claims
\* what the library should list: the papers it held at the start and those storePaper
\* added, in that order, less those deletePaper was confirmed for
Expected == SelectSeq(lib0 \o added, LAMBDA p : p.id \notin deleted)
Occurrences(papers, p) == Cardinality({i \in DOMAIN papers : papers[i] = p})
ClusterMembers(clusters) == UNION {Range(cl.papers) : cl \in Range(clusters.items)}

\* C1 (as claimed): after any addPaper calls, also from two popups whose reads and
\* writes interleave, the persisted library holds every paper that was added exactly
\* once and nothing else (no deletion having taken place).
C1_NoLostInsertion ==
    deleted = {} =>
        /\ \A p \in Range(added) : Occurrences(stPapers, p) = 1
        /\ \A p \in Range(stPapers) : p \in Range(lib0) \/ p \in Range(added)

\* C2 (as claimed): a paper added while cleanupOldData is between its storage read and
\* its storage write is still in the persisted library afterwards.
C2_AddSurvivesCleanup ==
    cleanPc = "idle" => \A p \in Range(added) : p \in Range(stPapers)

DeleteCascaded(c, id) ==
    /\ IsArray(currentClusters'[c])
    /\ IsArray(stClusters')
    /\ \A cl \in Range(currentClusters'[c].items) \cup Range(stClusters'.items) :
          id \notin IdsOf(cl.papers) /\ cl.papers # <<>>
    /\ \A cl \in Range(currentClusters[c].items) :
          IdsOf(cl.papers) \subseteq {id} =>
              cl.id \notin IdsOf(currentClusters'[c].items) \cup IdsOf(stClusters'.items)
    /\ id \notin IdsOf(currentPapers'[c]) \cup IdsOf(stPapers')

C5_DeleteReturnsFound ==
    [][\A c \in Ctx : \A id \in DeletableIds(c) :
          DeletePaper(c, id, TRUE) =>
              DeletePaperReturn(c, id) =
                  (IF id \in IdsOf(currentPapers[c]) THEN "true" ELSE "false")]_vars

C7_IdsPresentAndUnique ==
    /\ \A p \in Range(stPapers) : p.id # NoId
    /\ \A i, j \in DOMAIN stPapers : stPapers[i].id = stPapers[j].id => i = j

ClusteringRunEnds(c) ==
    \/ InstallClusters(c)
    \/ /\ Recluster(c) \/ (AfterStore(c) /\ files[c] = <<>>)
       /\ Len(currentPapers[c]) >= 2
       /\ ~ClusteringSent(c)

\* C9 (as claimed): when a clustering run has ended, the stored clusters are a
\* sequence of cluster records, the ones the background service produced for that run,
\* and nothing of an earlier run.
C9_StoredClustersAreTheRun ==
    [][\A c \in Ctx :
          ClusteringRunEnds(c) =>
              /\ IsArray(stClusters')
              /\ resp[c].kind = "response"
              /\ resp[c].success
              /\ stClusters'.items = resp[c].data.clusters]_vars

\* what the background service answered to a request whose gateway call gave a
\* well-formed result: success, one cluster per gateway cluster, and as members of each
\* the papers of the request its paper_ids name, nothing else
BackgroundDropsUnknown(c) ==
    (served[c].kind = "served" /\ ViaGateway(served[c].outcome)) =>
        LET named == served[c].outcome.result.clusters.items
            known == served[c].papers
        IN /\ resp[c].kind = "response"
           /\ resp[c].success
           /\ Len(resp[c].data.clusters) = Len(named)
           /\ \A i \in DOMAIN named :
                 /\ Range(resp[c].data.clusters[i].papers) \subseteq Range(known)
                 /\ IdsOf(resp[c].data.clusters[i].papers) =
                        Range(named[i].paper_ids.items) \cap IdsOf(known)
\* the same of what LiteratureAPI.performClustering resolved to, whose members are ids
ApiDropsUnknown ==
    (apiCall.kind \in {"result", "thrown"} /\ ViaGateway(apiCall.outcome)) =>
        /\ apiCall.kind = "result"
        /\ \A cl \in Range(apiCall.value.clusters) : Range(cl.papers) \subseteq IdsOf(apiCall.papers)

MalformedSet(outcome) ==
    /\ GatewayOk(outcome)
    /\ IsArray(outcome.result.clusters)
    /\ \E cluster \in Range(outcome.result.clusters.items) : ~IsArray(cluster.paper_ids)
\* C11: a clustering run whose new cluster set is structurally malformed (a cluster
\* without its members field) is answered with a failure whose error is
\* ValidationError, and no run on another input is answered that way.
C11_MalformedSetRejected ==
    \A c \in Ctx :
        (served[c].kind = "served" /\ resp[c].kind = "response") =>
            (MalformedSet(served[c].outcome)
                <=> (~resp[c].success /\ resp[c].error = "ValidationError"))

\* C12: with the lightweight variant's cap of five, the stored library after any
\* number of saves that follow one another is the last five documents saved, in the
\* order they were saved (so it never holds more than five).
C12_StoreKeepsLastFive == stDB = SliceLast(docSaved, LatestShown)

\* click handler h runs its callback in this step
HandlerCompletes(h) == clickHandlers[h].pc = "got" /\ clickHandlers'[h].pc = "done"
\* every click so far was on the same link and nothing was cleared
SameLinkOnly ==
    /\ ~cleared
    /\ \A g, h \in 1..clicks : clickHandlers[g].link = clickHandlers[h].link
\* C13: however the gets and sets of the click handlers interleave, viewedSuggestions
\* never holds a link twice; and when one link has been clicked any number of times
\* (no other link, no reset), each handler that has run its callback leaves the link
\* in viewedSuggestions exactly once.
C13_ViewedRecordedOnce ==
    [][/\ \A l \in Links : Occurrences(StoredViewed', l) <= 1
       /\ \A h \in 1..MaxClicks :
             (HandlerCompletes(h) /\ SameLinkOnly) =>
                 StoredViewed' = <<clickHandlers[h].link>>]_vars
\* two clicks on the same link, both handlers given an array without the link (both
\* gets before either set, nothing cleared, no other click), both done
C13_Witness ==
    /\ ~cleared
    /\ clicks = 2
    /\ \A h \in 1..2 :
          /\ clickHandlers[h].pc = "done"
          /\ clickHandlers[h].link = clickHandlers[1].link
          /\ ~Includes(clickHandlers[h].seen, clickHandlers[h].link)
    /\ StoredViewed = <<clickHandlers[1].link>>

\* C14: a link that is in viewedSuggestions is still in it after every step other
\* than a click on the clearCache button, overlapping click handlers included.
C14_ViewedAppendOnly ==
    [][ClearCache \/ \A l \in Range(StoredViewed) : l \in Range(StoredViewed')]_vars

\* a refresh of the suggestion list that displays other links than before
RefreshDisplays == suggestList' # suggestList
\* C15: a refresh of the suggestion list displays no entry whose link is in
\* viewedSuggestions.
C15_ViewedNotSurfaced ==
    [][RefreshDisplays => Range(suggestList') \cap Range(StoredViewed) = {}]_vars

\* what a run assigned: the ids, names, colors and members of its clusters in order,
\* or the error it threw
Assignment(run) ==
    IF run.kind = "thrown" THEN <<run.error>>
    ELSE [i \in DOMAIN run.value.clusters |->
             [id |-> run.value.clusters[i].id,
              name |-> run.value.clusters[i].name,
              color |-> run.value.clusters[i].color,
              papers |-> run.value.clusters[i].papers]]
BucketOf(paper) ==
    IF IsArray(paper.keywords) /\ paper.keywords.items # <<>>
    THEN Head(paper.keywords.items)
    ELSE General
Buckets(papers) == {BucketOf(papers[i]) : i \in DOMAIN papers}
PartitionsByFirstKeyword(papers, clusters) ==
    /\ Len(clusters) = Cardinality(Buckets(papers))
    /\ \A b \in Buckets(papers) :
          \E i \in DOMAIN clusters :
              /\ clusters[i].name = CapitalizeFirstLetter(b)
              /\ clusters[i].papers = SelectSeq(papers, LAMBDA p : BucketOf(p) = b)
    /\ \A i \in DOMAIN papers :
          Cardinality({k \in DOMAIN clusters : papers[i] \in Range(clusters[k].papers)}) = 1
    /\ \A k \in DOMAIN clusters : clusters[k].papers # <<>>
\* C17: every run of performLocalClustering returns clusters that partition the papers
\* by first keyword ("general" for a paper with no keywords): one cluster per distinct
\* first keyword, named by the capitalized keyword, holding exactly the papers with
\* that first keyword, every paper in exactly one cluster and no cluster empty.
C17_FallbackPartitions ==
    \A r \in DOMAIN localRuns :
        localRuns[r].by = "local" =>
            /\ localRuns[r].kind = "returned"
            /\ PartitionsByFirstKeyword(localPapers, localRuns[r].value.clusters)
\* the same for the inputs performLocalClustering does not throw on
FallbackPartitionsWhenReturned ==
    \A r \in DOMAIN localRuns :
        (localRuns[r].by = "local" /\ localRuns[r].kind = "returned") =>
            PartitionsByFirstKeyword(localPapers, localRuns[r].value.clusters)

\* the runs of periodicRelatedWorkFetch that fetched, and whether every run has ended
Fetched == {k \in 1..MaxFetches : fetchers[k].pc = "done" /\ fetchers[k].stored # 0}
NoFetchUnderWay == \A k \in 1..MaxFetches : fetchers[k].pc \in {"none", "done"}
CleanupDecides == cleanPc = "read" /\ cleanPc' # "read"
CleanupPapersRuns == cleanPc # "idle" /\ cleanPc' = "idle"
\* C21 (as claimed): the papers part of cleanupOldData leaves a library of 100 or
\* fewer papers as it is, and never removes a paper whose processed_date lies within
\* the last year.
C21_CleanupEvictsOldOnly ==
    [][CleanupPapersRuns =>
          /\ Len(stPapers) <= HighWaterMark => stPapers' = stPapers
          /\ \A p \in Range(stPapers) :
                p.date > now - OneYear => p \in Range(stPapers')]_vars

\* the gateway call behind the response of popup c failed: the gateway was not
\* reached, answered with a status that is not ok, or with a body that is no JSON or
\* has not the shape of a result
ClusteringGatewayFailed(c) == served[c].kind = "served" /\ ~ViaGateway(served[c].outcome)
RelatedGatewayFailed(c) ==
    /\ served[c].kind = "related"
    /\ served[c].outcome.kind = "json" => ~IsArray(served[c].outcome.result.papers)
\* C22 (as claimed): a PERFORM_CLUSTERING or FETCH_RELATED_WORK request whose gateway
\* call failed is answered with success and with the whole local fallback result, the
\* keyword-bucket clusters of the request's papers or the mock related work.
C22_GatewayFailureAbsorbed ==
    \A c \in Ctx :
        /\ ClusteringGatewayFailed(c) =>
              /\ resp[c].success
              /\ resp[c].data = PerformLocalClustering(served[c].papers)
        /\ RelatedGatewayFailed(c) => resp[c] = Success(MockRelatedWork)

\* storePaper runs in popup c for a file whose analysis failed: analyzeDocument
\* returned undefined, the gateway call having failed or the background having
\* answered success false
StoresAfterFailedAnalysis(c) ==
    /\ pc[c] = "analyze"
    /\ resp[c] # NoResp
    /\ AnalysisResults(resp[c]) = Undef
    /\ pc'[c] = "stored"
\* C23 (as claimed): storing a file whose analysis failed leaves exactly one paper for
\* that file in the persisted library, and that paper has an id and carries the file
\* name.
C23_FailedAnalysisKeepsUpload ==
    [][\A c \in Ctx :
          StoresAfterFailedAnalysis(c) =>
              LET file == Head(files[c])
                  stored == {i \in DOMAIN stPapers' : stPapers'[i].up = file.up}
              IN /\ Cardinality(stored) = 1
                 /\ \A i \in stored : /\ stPapers'[i].id # NoId
                                      /\ stPapers'[i].file = file.name]_vars

\* C24 (as claimed): every ANALYZE_DOCUMENT, PERFORM_CLUSTERING and FETCH_RELATED_WORK
\* request is eventually answered, also when the gateway never answers.
C24_RequestsAnswered ==
    \A c \in Ctx : (req[c].kind = "message") ~> (resp[c].kind = "response")

\* the query is a substring of the lower-cased title, of some lower-cased author, of
\* some lower-cased keyword or of the lower-cased abstract; a missing field has no
\* substring
FieldHas(field, query) == field # Undef /\ StringIncludes(ToLowerCase(field.chars), query)
SomeHas(list, query) ==
    list # Undef /\ \E string \in Range(list.items) : StringIncludes(ToLowerCase(string), query)
QueryMatches(paper, query) ==
    \/ FieldHas(paper.title, query)
    \/ SomeHas(paper.authors, query)
    \/ SomeHas(paper.keywords, query)
    \/ FieldHas(paper.abstract, query)
\* a search with a text query has run
QuerySearched == searchQuery # <<>> /\ Trim(searchQuery) # <<>>
\* C25 (as claimed): a search with a text query displays exactly the papers one of
\* whose four fields has the lower-cased query as a substring, whatever fields the
\* papers lack.
C25_QueryMatchesAnyField ==
    QuerySearched =>
        searchShown = Arr(SelectSeq(searchPapers,
                            LAMBDA p : QueryMatches(p, ToLowerCase(searchQuery))))
\* the same for libraries in which every paper has the four fields
QueryMatchesOnCompletePapers ==
    (/\ QuerySearched
     /\ \A p \in Range(searchPapers) :
           Undef \notin {p.title, p.authors, p.keywords, p.abstract})
        => searchShown = Arr(SelectSeq(searchPapers,
                               LAMBDA p : QueryMatches(p, ToLowerCase(searchQuery))))

\* a step that inserts a paper, deletes a paper or replaces the clusters
StoreMutated == stPapers' # stPapers \/ stClusters' # stClusters
\* C26 (as claimed): after every step that inserts or deletes a paper or replaces the
\* clusters the persisted lastUpdated is the time of that step.
C26_LastUpdatedRefreshed ==
    [][StoreMutated => stLastUpdated' >= now']_vars
\* the same for the steps of storePaper alone
InsertionRefreshesLastUpdated ==
    [][(\E c \in Ctx : pc[c] = "analyze" /\ pc'[c] = "stored") => stLastUpdated' >= now']_vars

\* the papers the popup has stored are in the persisted library in the order in which
\* their files were submitted (up is the ordinal of the submission)
InSubmissionOrder(papers) ==
    \A a, b \in DOMAIN papers :
        (papers[a].up > 0 /\ papers[a].up < papers[b].up) => a < b
SavedDocsInOrder ==
    /\ InSubmissionOrder(stDB)
    /\ \A d \in Range(docSaved) : d \in Range(stDB)

\* the ordinals of the uploaded files that have a paper in a papers array
UploadsIn(papers) == {papers[i].up : i \in DOMAIN papers} \ {0}
\* C28 (as claimed): when storePaper's storage write fails, the upload ends with the
\* error displayed, and the paper is in the popup's currentPapers exactly if it is in
\* the persisted papers.
C28_FailedWriteLeavesAgreement ==
    [][\A c \in Ctx :
          StorePaperFails(c) =>
              /\ pc'[c] = "failed"
              /\ Head(files[c]).up \in UploadsIn(currentPapers'[c])
                    <=> Head(files[c]).up \in UploadsIn(stPapers')]_vars

\* a detected paper is in the library: some stored paper carries its title
InLibrary(title) == \E p \in Range(stPapers) : p.file = title
\* the save request of the content script has been answered
SaveAnswered == pageResp.kind = "response"
\* C29 (as claimed): a SAVE_DETECTED_PAPER or SAVE_ALL_DETECTED_PAPERS request of the
\* content script is answered with success, and the papers it named are in the library.
C29_DetectedPapersSaved ==
    SaveAnswered =>
        /\ pageResp.success
        /\ \A title \in Range(pageAsked) : InLibrary(title)

\* the formats exportData has a case for
SupportedFormats == {"json", "csv", "bibtex"}
ContentTypeOf(format) ==
    CASE format = "json" -> "application/json"
      [] format = "csv" -> "text/csv"
      [] format = "bibtex" -> "text/plain"
\* data, the export of that format, holds what was stored: the JSON document the papers
\* and clusters themselves with their numbers, the CSV text one line per paper after the
\* header, the BibTeX text one entry per paper, each with the paper's date
HoldsStored(data, format, papers, clusters) ==
    CASE format = "json" ->
            /\ data.kind = "json"
            /\ data.papers = papers
            /\ data.metadata.total_papers = Len(papers)
            /\ IF clusters = Undef
               THEN data.clusters = Arr(<<>>)
               ELSE data.clusters = clusters
            /\ IsArray(clusters) => data.metadata.total_clusters = Len(clusters.items)
      [] format = "csv" ->
            /\ data.kind = "text"
            /\ Len(data.lines) = Len(papers)
            /\ (Len(papers) > 0) => (Len(data.header) = 5)
            /\ \A i \in DOMAIN papers : data.lines[i].processed_date = papers[i].date
      [] format = "bibtex" ->
            /\ data.kind = "text"
            /\ Len(data.lines) = Len(papers)
            /\ \A i \in DOMAIN papers : data.lines[i].year = papers[i].date \div OneYear
\* a step of the handler of c's EXPORT_DATA message, and the step that answers it
ExportHandled(c) == Pending(c, "EXPORT_DATA") /\ (bg'[c] # bg[c] \/ resp'[c] # resp[c])
ExportAnswered(c) == Pending(c, "EXPORT_DATA") /\ resp'[c].kind = "response"
\* the answer to an EXPORT_DATA message with those options, read being what was stored
\* when the handler read the library
AnsweredAsClaimed(response, options, read) ==
    IF options # Undef /\ options.format \in SupportedFormats
    THEN /\ response.success
         /\ response.data.kind = "object"
         /\ DOMAIN response.data = {"kind", "data", "filename", "contentType"}
         /\ response.data.contentType = ContentTypeOf(options.format)
         /\ response.data.filename[2] = now
         /\ HoldsStored(response.data.data, options.format, read.papers, read.clusters)
    ELSE /\ ~response.success
         /\ response.error # ""
\* C30: EXPORT_DATA with format json, csv or bibtex is answered with success and a
\* {data, filename, contentType} record built from the stored papers and clusters; any
\* other format is answered with success false and an error; no step of the handler
\* changes the stored papers or clusters.
C30_ExportAnswered ==
    [][\A c \in Ctx :
          /\ ExportHandled(c) => (stPapers' = stPapers /\ stClusters' = stClusters)
          /\ ExportAnswered(c) =>
                AnsweredAsClaimed(resp'[c], req[c].data, exportRead[c])]_vars
\* an export of two or more stored papers and their clusters has been answered while
\* the library has grown since it was read
C30_Witness ==
    \E c \in Ctx :
        /\ resp[c].kind = "response"
        /\ served[c].kind = "export"
        /\ resp[c].success
        /\ Len(served[c].read.papers) >= 2
        /\ Len(stPapers) > Len(served[c].read.papers)
\* an unsupported format has been refused
ExportRefused ==
    \E c \in Ctx :
        /\ resp[c].kind = "response"
        /\ served[c].kind = "export"
        /\ ~resp[c].success

\* storePaper or saveDoc has stored the record it was handed
RecordStored == addStored # Undef
\* C31 (as claimed): a record handed to storePaper or saveDoc is stored whatever optional
\* fields it lacks; it keeps the id it came with and gets a fresh one when it came with
\* none; and the stored record has every optional field.
C31_MissingFieldsDefaulted ==
    RecordStored =>
        /\ addStored.id # NoId
        /\ (addRecord # Undef /\ addRecord.id # NoId) => addStored.id = addRecord.id
        /\ OptionalFields \subseteq addStored.keys
\* storePaper and saveDoc reject no record, whatever optional fields it lacks, and
\* add none of them
RecordsStoredAsTheyCame ==
    RecordStored =>
        addStored.keys \cap OptionalFields =
            (IF addRecord = Undef THEN {} ELSE addRecord.keys)

\* the buckets of papers in first-seen order: the first keyword of each paper that is
\* the first paper with that first keyword
FirstSeen(papers) ==
    LET firsts == {i \in DOMAIN papers :
                      \A j \in 1..(i - 1) : BucketOf(papers[j]) # BucketOf(papers[i])}
        order == SortedSeq(firsts)
    IN [k \in DOMAIN order |-> BucketOf(papers[order[k]])]
\* run, a returned fallback result for papers: cluster i has id cluster_i, palette color
\* (i - 1) mod 12 and the papers of the i-th bucket in first-seen order
InFirstSeenOrder(run, papers) ==
    LET clusters == run.value.clusters
        buckets == FirstSeen(papers)
    IN /\ Len(clusters) = Len(buckets)
       /\ \A i \in DOMAIN clusters :
             /\ clusters[i].id = i
             /\ clusters[i].color = (i - 1) % PaletteSize
             /\ clusters[i].papers =
                   SelectSeq(papers, LAMBDA p : BucketOf(p) = buckets[i])
DistinctIds(run) ==
    \A i, j \in DOMAIN run.value.clusters :
        run.value.clusters[i].id = run.value.clusters[j].id => i = j
\* C32 (as claimed): a fallback clustering result numbers the buckets in first-seen order
\* of first keywords, cluster i with id cluster_i and color (i - 1) mod 12, and the
\* clusters built from a gateway response have pairwise distinct ids.
C32_ClusterIdsByPosition ==
    \A r \in DOMAIN localRuns :
        localRuns[r].kind = "returned" =>
            /\ localRuns[r].by = "local" => InFirstSeenOrder(localRuns[r], localPapers)
            /\ DistinctIds(localRuns[r])
\* the ids of a fallback result are cluster_1 .. cluster_k, and processClusteringResult
\* gives pairwise distinct ids
IdsByIndex ==
    \A r \in DOMAIN localRuns :
        (localRuns[r].kind = "returned" /\ localRuns[r].by \in {"local", "process"}) =>
            \A i \in DOMAIN localRuns[r].value.clusters :
                localRuns[r].value.clusters[i].id = i
\* without a first keyword that is an array index, the fallback numbers the buckets in
\* first-seen order
FirstSeenOrderOfWords ==
    \A r \in DOMAIN localRuns :
        (/\ localRuns[r].kind = "returned"
         /\ localRuns[r].by = "local"
         /\ \A i \in DOMAIN localPapers : ~IsArrayIndex(BucketOf(localPapers[i]))) =>
            InFirstSeenOrder(localRuns[r], localPapers)
\* formatClusteringResponse gives two clusters one id
FormatRepeatsId ==
    \E r \in DOMAIN localRuns : localRuns[r].by = "format" /\ ~DistinctIds(localRuns[r])

\* performSearch runs in popup c, from the search input, the opening of the search
\* popup or a filter button
Searches(c) == PerformSearch(c) \/ \E filter \in Filters(c) : SetSearchFilter(c, filter)
\* the clusters of the popup that carry the id the filter names
Selected(clusters, filter) ==
    IF IsArray(clusters)
    THEN {cl \in Range(clusters.items) : ToString(cl.id) = filter}
    ELSE {}
\* every paper shown is a member of the cluster the filter names and is in the popup's
\* library
ShowsMembersOnly(c) ==
    \A p \in Range(shown'[c].items) :
        /\ \E cl \in Selected(currentClusters'[c], currentFilter'[c]) :
              p \in Range(cl.papers)
        /\ p \in Range(currentPapers'[c])
\* a filter that names no cluster shows no paper of a cluster
ShowsNoOtherCluster(c) ==
    Selected(currentClusters'[c], currentFilter'[c]) = {} =>
        \A p \in Range(shown'[c].items) :
            \A cl \in Range(currentClusters'[c].items) : p \notin Range(cl.papers)
FilterOfExistingCluster ==
    [][\A c \in Ctx :
          (/\ Searches(c)
           /\ currentFilter'[c] # "all"
           /\ IsArray(shown'[c])
           /\ Selected(currentClusters'[c], currentFilter'[c]) # {}) =>
              ShowsMembersOnly(c)]_vars

\* popup c has a PERFORM_CLUSTERING request out after the step
ClusteringRequested(c) == req'[c].kind = "message" /\ req'[c].type = "PERFORM_CLUSTERING"
\* the step in which handleFileUpload of popup c leaves its loop, the last file stored
BatchEnds(c) == AfterStore(c) /\ files[c] = <<>>
\* a step of the batch before that one
BatchGoesOn(c) ==
    \/ \E n \in 1..MaxUploads : HandleFileUpload(c, n)
    \/ StorePaper(c)
    \/ AfterStore(c) /\ files[c] # <<>>
\* performClustering is called on a library of fewer than 2 papers: nothing is sent and
\* the stored clusters stay
NoOpBelowTwo(c) ==
    ((Recluster(c) \/ BatchEnds(c)) /\ Len(currentPapers[c]) < 2) =>
        /\ ~ClusteringRequested(c)
        /\ stClusters' = stClusters
\* C34 (as claimed): performClustering on fewer than 2 papers sends no request and leaves
\* the stored clusters; an upload batch that leaves at least 2 papers sends one
\* PERFORM_CLUSTERING request, when its last file has been stored and not before.
C34_ClusteringAfterBatch ==
    [][\A c \in Ctx :
          /\ NoOpBelowTwo(c)
          /\ BatchGoesOn(c) => ~ClusteringRequested(c)
          /\ (BatchEnds(c) /\ Len(currentPapers[c]) >= 2) => ClusteringRequested(c)]_vars
\* the same where the identifier fileData resolves in performClustering
ClusteringAfterBatchWhereBound ==
    [][\A c \in Ctx :
          /\ NoOpBelowTwo(c)
          /\ BatchGoesOn(c) => ~ClusteringRequested(c)
          /\ (BatchEnds(c) /\ Len(currentPapers[c]) >= 2 /\ fileDataBound) =>
                ClusteringRequested(c)]_vars
\* a batch has ended on a library of fewer than 2 papers
BatchEndedBelowTwo ==
    \E c \in Ctx : pc[c] = "idle" /\ Len(added) = 1 /\ Len(currentPapers[c]) = 1

\* the background service is analysing the document of popup c: analyzeDocument has set
\* isProcessing and awaits sendPdfToPython
Analysing(c) == Pending(c, "ANALYZE_DOCUMENT") /\ bg[c] = "fetch"
\* handleMessage takes up the ANALYZE_DOCUMENT request of popup c while isProcessing
HandledWhileBusy(c) ==
    /\ Pending(c, "ANALYZE_DOCUMENT")
    /\ bg[c] = "idle"
    /\ isProcessing
    /\ req'[c] # req[c] \/ bg'[c] # bg[c] \/ resp'[c] # resp[c]
\* C35: at most one analysis is in progress at any time, with isProcessing set while it
\* is; an ANALYZE_DOCUMENT request taken up while isProcessing is answered with success
\* false and 'Another document is currently being processed', starts no analysis and
\* leaves isProcessing as it is.
C35_OneAnalysisAtATime ==
    /\ [](/\ Cardinality({c \in Ctx : Analysing(c)}) <= 1
          /\ (\E c \in Ctx : Analysing(c)) => isProcessing)
    /\ [][\A c \in Ctx :
             HandledWhileBusy(c) =>
                 /\ resp'[c].kind = "response"
                 /\ ~resp'[c].success
                 /\ resp'[c].error = "Another document is currently being processed"
                 /\ bg'[c] = "idle"
                 /\ isProcessing' = isProcessing]_vars
\* the request of one popup has been rejected while the document of the other is being
\* analysed
C35_Witness ==
    \E c, d \in Ctx :
        /\ c # d
        /\ Analysing(c)
        /\ resp[d].kind = "response"
        /\ resp[d].error = "Another document is currently being processed"

\* C36 (as claimed): whenever isProcessing is set it is cleared again later, whether the
\* gateway call succeeds, fails or never answers.
C36_BusyFlagReleased == isProcessing ~> ~isProcessing
\* isProcessing is set by the step in which an analysis starts and is cleared by the
\* step in which the gateway call of that analysis succeeds or fails
FlagFollowsAnalysis ==
    [][/\ (~isProcessing /\ isProcessing') => \E c \in Ctx : Analysing(c)'
       /\ \A c \in Ctx :
             (\E gatewayOk \in BOOLEAN : AnalyzeEnd(c, gatewayOk)) => ~isProcessing']_vars
\* the service is busy with a gateway call that will not be answered
BusyForGood == isProcessing /\ \E c \in Ctx : bg[c] = "hung"

\* a response is given to the message of caller c in this step
Answers(c) == resp'[c] # resp[c] /\ resp'[c].kind = "response"
\* no message gets a second response: a response is given to a delivered message that
\* has none, and the handler is through with the message; a message of a known type is
\* answered with success, or with success false and an error message
AnsweredOnceAtMost ==
    [][/\ \A c \in Ctx :
             Answers(c) =>
                 /\ req[c].kind = "message"
                 /\ resp[c] = NoResp
                 /\ req'[c] = NoReq
                 /\ req[c].type \in HandledTypes
                 /\ resp'[c].success \/ resp'[c].error # ""
       /\ (pageResp' # pageResp /\ pageResp'.kind = "response") =>
             /\ pageReq.kind = "message"
             /\ pageResp = NoResp
             /\ pageReq' = NoReq
             /\ pageReq.type \notin HandledTypes
             /\ pageResp' = Failure("Unknown message type")]_vars
\* C37 (as claimed): every message delivered to handleMessage is answered, and answered
\* once: a known type with success or, when its processing throws, with success false
\* and the error message, an unknown type with 'Unknown message type'.
C37_AnsweredExactlyOnce ==
    /\ \A c \in Ctx : (req[c].kind = "message") ~> (req[c] = NoReq)
    /\ (pageReq.kind = "message") ~> (pageReq = NoReq)
    /\ AnsweredOnceAtMost


\* a step of the running handleInstallation
InstallationStep == instPc' # instPc
\* a step of migrateData
MigrateDataStep == InstallationStep /\ instPc \in {"get", "set"}
\* C38: migrateData writes only settings and userPreferences, each only when it is
\* absent and then with its defaults, and leaves papers, clusters and the other keys as
\* they are; the one step of handleInstallation that writes papers or clusters is the
\* first-time install's initializeStorage, which sets both to empty.
C38_UpdateKeepsLibrary ==
    [][/\ MigrateDataStep =>
             /\ UNCHANGED <<stPapers, stClusters, stRelated, stLastUpdated, stVersion>>
             /\ stSettings' # stSettings =>
                    stSettings = Undef /\ stSettings' = DefaultSettings
             /\ stInterests' # stInterests =>
                    stInterests = Undef /\ stInterests' = Arr(<<>>)
       /\ (InstallationStep /\ <<stPapers, stClusters>>' # <<stPapers, stClusters>>) =>
             /\ instPc = "initialize"
             /\ stPapers' = <<>>
             /\ stClusters' = Arr(<<>>)]_vars
\* an update found a library without settings, and wrote the settings while the library,
\* which got a paper in the meantime, is still there
C38_Witness ==
    /\ instPc = "idle"
    /\ instRead.settings
    /\ stSettings = DefaultSettings
    /\ stPapers # <<>>
    /\ stPapers # lib0
\* a first-time install wrote the empty library
FirstInstallWritten ==
    /\ instPc = "idle"
    /\ instEvents = 1
    /\ uploads = 0
    /\ stLastUpdated # 0
    /\ stPapers = <<>>
    /\ stClusters = Arr(<<>>)
    /\ stVersion = Version
    /\ stSettings = DefaultSettings

=============================================================================
